---- MODULE Spec2Model ----
(***************************************************************************)
(* A model of the relay server of claude-voice-multiplexer:                *)
(*   - the session registry (src/relay-server/registry.py),                *)
(*   - the /ws/session connection handler (src/relay-server/server.py),    *)
(*   - the per-session room, its reply queue and status state machine,     *)
(*     the voice-activity segmenter and the noise filter                   *)
(*     (src/relay-server/livekit_agent.py).                                *)
(* The server is one asyncio event loop: code between two awaits is one    *)
(* atomic step, and an action of this module is one such step.             *)
(***************************************************************************)
EXTENDS Integers, Sequences, FiniteSets, TLC

(***************************************************************************)
(* Bounds of the model.                                                    *)
(***************************************************************************)
\* Number of /ws/session connections (transport handles) that may be opened.
NumConns == 2
\* Last value of the registry clock.
MaxTime == 2

\* Stale when now - last_heartbeat > SESSION_TIMEOUT (config.py:32, 600 s).
\* The registry clock counts in units of 600 s, so the constant is 1.
SESSION_TIMEOUT == 1

Conns == 1..NumConns
SessionIds == {"s1", "s2"}
Viewers == {"v1"}
\* The viewers of the specification of the viewer operations.
ViewerIds == {"v1", "v2"}
\* client_id = None.
NoViewer == "none"
NoSid == "none"

VARIABLES
    \* ---- registry.py / server.py -----------------------------------------
    now,            \* time.time(), the wall clock
    sessions,       \* SessionRegistry._sessions: session_id -> Session
    lock,           \* SessionRegistry._lock: 0 when free, else the holder
    rooms,          \* RelayAgent._rooms: the session ids that have a SessionRoom
    ws_state,       \* per transport: "new", "open" or "closed"
    conn_pc,        \* per connection: where its session_ws handler is
    conn_sid,       \* per connection: the handler's local session_id
    conn_reconnect, \* per connection: the handler's local is_reconnect
    replaced,       \* history: <<id, old transport, new transport>> of each re-registration
    reg_last,       \* history: per session id, the last connection to register it
    reg_at,         \* history: per session id, the time of its last registration
    srv_closed,     \* history: the transports that register has closed
    \* ---- the noise filter applied to one transcript -------------------------
    noise_in,       \* the raw transcript
    noise_out,      \* the results of the filter: applied once, applied twice
    noise_n,        \* how many times the filter has been applied
    \* ---- livekit_agent.py: the room of one session -------------------------
    clock,          \* time.time() in milliseconds
    cfg,            \* the configured thresholds of the segmenter, in ms
    stream,         \* the audio stream of the participant: frames delivered and to come
    room,           \* the fields of the SessionRoom
    playing,        \* the activations of _play_tts_response: reply -> its position
    seg,            \* the locals of _process_audio_stream
    utt,            \* the activation of _handle_utterance, when there is one
    hplay,          \* history: replies submitted, playbacks started and completed,
                    \* whether a "listening" was the last event of the turn
    hrace,          \* history: the status events of the playback in progress
    hdone,          \* history: how the last playback ended
    hseg,           \* history: the frames of the utterance being segmented, the last end
    hutt,           \* history: the last transcript and what was forwarded of it
    \* ---- livekit_agent.py: the RelayAgent and the rooms of all its sessions ---
    agent_rooms,    \* RelayAgent._rooms: session_id -> the SessionRoom and its tasks
    agent_made,     \* history: how many SessionRoom instances have been created
    \* ---- livekit_agent.py: the audio-ingestion tasks of one room -----------
    ingest,         \* the tasks of _process_audio_stream, _audio_stream_tasks and
                    \* the order in which the event loop will run the tasks
    \* ---- livekit_agent.py: the removal of the room -------------------------
    removal         \* where remove_session is, and the chunks published per reply

regVars == <<now, sessions, lock, rooms, ws_state, conn_pc, conn_sid,
             conn_reconnect, replaced, reg_last, reg_at, srv_closed>>

noiseVars == <<noise_in, noise_out, noise_n>>

roomVars == <<clock, cfg, stream, room, playing, seg, utt,
              hplay, hrace, hdone, hseg, hutt>>

agentVars == <<agent_rooms, agent_made>>

taskVars == <<ingest, removal>>

vars == <<regVars, noiseVars, roomVars, agentVars, taskVars>>

\* What the registry and the connection handlers leave alone.
beyondRegistry == <<noiseVars, roomVars, agentVars, taskVars>>

(***************************************************************************)
(* registry.py                                                             *)
(***************************************************************************)
\* Session(...), registry.py:20-29: created_at and last_heartbeat default to
\* time.time(), connected_clients to an empty dict.
Session(w, t, clients) ==
    [ws |-> w, created_at |-> t, last_heartbeat |-> t, connected_clients |-> clients]

\* A staleness test that fires at the timeout, not after it.
StaleAtTimeout(s, t) == t - s.last_heartbeat >= SESSION_TIMEOUT

\* Session.is_stale, registry.py:35-37.
is_stale(s, t) == t - s.last_heartbeat > SESSION_TIMEOUT

\* dict assignment and dict.pop on _sessions.
Put(m, k, v) == [x \in DOMAIN m \cup {k} |-> IF x = k THEN v ELSE m[x]]
Pop(m, k) == [x \in DOMAIN m \ {k} |-> m[x]]

\* A list_sessions that evicts nothing.
PruneNothing(m, t) == m

\* _prune_stale, registry.py:123-127, on the map m at time t.
prune_stale(m, t) == [x \in {y \in DOMAIN m : ~is_stale(m[y], t)} |-> m[x]]

\* What list_sessions returns, registry.py:102-104: the records left by
\* _prune_stale, given by their ids.
list_sessions(m, t) == DOMAIN prune_stale(m, t)

\* An unregister that leaves the record in the map.
UnregisterKeeps(m, sid) == m

\* unregister, registry.py:90-92, on the map m.
unregister(m, sid) == Pop(m, sid)

\* A register that reports every registration as a first one.
NeverReconnect(m, sid) == FALSE

\* register, registry.py:67-68: old = self._sessions.get(session_id);
\* is_reconnect = old is not None.
is_reconnect(m, sid) == sid \in DOMAIN m

\* A register that gives the new record an empty viewer set.
RegisteredFresh(m, sid, w, t) == Session(w, t, {})

\* The transport that register closes, registry.py:67-75: the stored one.
ClosedByRegister(old) == {old.ws}

\* The session that register stores, registry.py:77-87.
Registered(m, sid, w, t) ==
    Session(w, t, IF sid \in DOMAIN m THEN m[sid].connected_clients ELSE {})

\* A lock that never excludes anyone.
NeverLocked(l) == FALSE

\* asyncio.Lock.locked() of SessionRegistry._lock, registry.py:58: `async
\* with self._lock` goes on only when the lock is not held.
locked(l) == l # 0

RegInit ==
    /\ now = 0
    /\ sessions = [x \in {} |-> 0]
    /\ lock = 0
    /\ rooms = {}
    /\ ws_state = [c \in Conns |-> "new"]
    /\ conn_pc = [c \in Conns |-> "init"]
    /\ conn_sid = [c \in Conns |-> NoSid]
    /\ conn_reconnect = [c \in Conns |-> FALSE]
    /\ replaced = {}
    /\ reg_last = [s \in SessionIds |-> 0]
    /\ reg_at = [s \in SessionIds |-> 0]
    /\ srv_closed = {}

\* The clock advances.
Tick ==
    /\ now < MaxTime
    /\ now' = now + 1
    /\ UNCHANGED <<sessions, lock, rooms, ws_state, conn_pc, conn_sid,
                   conn_reconnect, replaced, reg_last, reg_at, srv_closed>>
    /\ UNCHANGED beyondRegistry

\* session_ws: await ws.accept(), server.py:967-968.
Accept(c) ==
    /\ conn_pc[c] = "init"
    /\ ws_state' = [ws_state EXCEPT ![c] = "open"]
    /\ conn_pc' = [conn_pc EXCEPT ![c] = "recv"]
    /\ UNCHANGED <<now, sessions, lock, rooms, conn_sid, conn_reconnect,
                   replaced, reg_last, reg_at, srv_closed>>
    /\ UNCHANGED beyondRegistry

\* The plugin end of a transport goes away.
PeerClose(c) ==
    /\ ws_state[c] = "open"
    /\ ws_state' = [ws_state EXCEPT ![c] = "closed"]
    /\ UNCHANGED <<now, sessions, lock, rooms, conn_pc, conn_sid,
                   conn_reconnect, replaced, reg_last, reg_at, srv_closed>>
    /\ UNCHANGED beyondRegistry

\* A "register" message, server.py:976-984, into registry.register,
\* registry.py:66-88.  With no record of the id the whole of register runs
\* without suspending and the handler is left in ws.send_text (server.py:985).
\* With a record, register closes the stored transport and suspends in that
\* close, holding the lock.
RecvRegister(c, sid) ==
    /\ conn_pc[c] = "recv"
    /\ ws_state[c] = "open"
    /\ ~locked(lock)
    /\ conn_sid' = [conn_sid EXCEPT ![c] = sid]
    /\ IF is_reconnect(sessions, sid)
       THEN /\ lock' = c
            /\ ws_state' = [w \in Conns |->
                   IF w \in ClosedByRegister(sessions[sid])
                   THEN "closed" ELSE ws_state[w]]
            /\ conn_reconnect' = [conn_reconnect EXCEPT ![c] = TRUE]
            /\ conn_pc' = [conn_pc EXCEPT ![c] = "reg_close"]
            /\ srv_closed' = srv_closed \cup ClosedByRegister(sessions[sid])
            /\ UNCHANGED <<sessions, replaced, reg_last, reg_at>>
       ELSE /\ sessions' = Put(sessions, sid, Registered(sessions, sid, c, now))
            /\ conn_reconnect' = [conn_reconnect EXCEPT ![c] = FALSE]
            /\ conn_pc' = [conn_pc EXCEPT ![c] = "reg_sent"]
            /\ reg_last' = [reg_last EXCEPT ![sid] = c]
            /\ reg_at' = [reg_at EXCEPT ![sid] = now]
            /\ UNCHANGED <<lock, ws_state, replaced, srv_closed>>
    /\ UNCHANGED <<now, rooms>>
    /\ UNCHANGED beyondRegistry

\* register resumes after old.ws.close(), registry.py:77-88: the new record
\* takes the old record's viewers, the lock is released, and the handler sends
\* "registered" (server.py:985), which raises on a closed transport and takes
\* the handler to its finally block.
RegisterStore(c) ==
    /\ conn_pc[c] = "reg_close"
    /\ lock = c
    /\ LET sid == conn_sid[c] IN
       /\ replaced' = replaced \cup {<<sid, sessions[sid].ws, c>>}
       /\ sessions' = Put(sessions, sid, Registered(sessions, sid, c, now))
       /\ reg_last' = [reg_last EXCEPT ![sid] = c]
       /\ reg_at' = [reg_at EXCEPT ![sid] = now]
    /\ lock' = 0
    /\ conn_pc' = [conn_pc EXCEPT ![c] =
           IF ws_state[c] = "open" THEN "reg_sent" ELSE "fin"]
    /\ UNCHANGED <<now, rooms, ws_state, conn_sid, conn_reconnect, srv_closed>>
    /\ UNCHANGED beyondRegistry

\* RelayAgent.add_session, livekit_agent.py:624-638: a no-op for an id that has
\* a room, else the room is stored and started.
add_session(rs, sid) == rs \cup {sid}

\* RelayAgent.remove_session, livekit_agent.py:640-645.
remove_session(rs, sid) == rs \ {sid}

\* After "registered" is sent, server.py:989-999: on a reconnect the room is
\* removed (suspending in room.stop() when there was one), then added.
RegRecycle(c) ==
    /\ conn_pc[c] = "reg_sent"
    /\ LET sid == conn_sid[c] IN
       IF conn_reconnect[c] /\ sid \in rooms
       THEN /\ rooms' = remove_session(rooms, sid)
            /\ conn_pc' = [conn_pc EXCEPT ![c] = "reg_add"]
       ELSE /\ rooms' = add_session(rooms, sid)
            /\ conn_pc' = [conn_pc EXCEPT ![c] = "reg_bcast"]
    /\ UNCHANGED <<now, sessions, lock, ws_state, conn_sid, conn_reconnect,
                   replaced, reg_last, reg_at, srv_closed>>
    /\ UNCHANGED beyondRegistry

\* add_session after remove_session's room.stop() has returned, server.py:996-999.
RegAdd(c) ==
    /\ conn_pc[c] = "reg_add"
    /\ rooms' = add_session(rooms, conn_sid[c])
    /\ conn_pc' = [conn_pc EXCEPT ![c] = "reg_bcast"]
    /\ UNCHANGED <<now, sessions, lock, ws_state, conn_sid, conn_reconnect,
                   replaced, reg_last, reg_at, srv_closed>>
    /\ UNCHANGED beyondRegistry

\* _broadcast_sessions, server.py:1002 and 1368-1387: list_sessions prunes the
\* stale sessions (registry.py:102-104); the handler returns to receive_text.
RegBroadcast(c) ==
    /\ conn_pc[c] = "reg_bcast"
    /\ ~locked(lock)
    /\ sessions' = prune_stale(sessions, now)
    /\ conn_pc' = [conn_pc EXCEPT ![c] = "recv"]
    /\ UNCHANGED <<now, lock, rooms, ws_state, conn_sid, conn_reconnect,
                   replaced, reg_last, reg_at, srv_closed>>
    /\ UNCHANGED beyondRegistry

\* A heartbeat that stores a record whether or not the id has one.
HeartbeatCreates(m, sid, t) == Put(m, sid, Session(0, t, {}))

\* registry.heartbeat, registry.py:94-97, on the map m.
heartbeat(m, sid, t) ==
    IF sid \in DOMAIN m
    THEN [m EXCEPT ![sid] = [m[sid] EXCEPT !.last_heartbeat = t]]
    ELSE m

\* A "heartbeat" message, server.py:1004-1007.
RecvHeartbeat(c, sid) ==
    /\ conn_pc[c] = "recv"
    /\ ws_state[c] = "open"
    /\ ~locked(lock)
    /\ sessions' = heartbeat(sessions, sid, now)
    /\ UNCHANGED <<now, lock, rooms, ws_state, conn_pc, conn_sid,
                   conn_reconnect, replaced, reg_last, reg_at, srv_closed>>
    /\ UNCHANGED beyondRegistry

\* receive_text raises WebSocketDisconnect on a closed transport,
\* server.py:972 and 1082-1083.
RecvClosed(c) ==
    /\ conn_pc[c] = "recv"
    /\ ws_state[c] = "closed"
    /\ conn_pc' = [conn_pc EXCEPT ![c] = "fin"]
    /\ UNCHANGED <<now, sessions, lock, rooms, ws_state, conn_sid,
                   conn_reconnect, replaced, reg_last, reg_at, srv_closed>>
    /\ UNCHANGED beyondRegistry

\* The session id the finally block of session_ws cleans up, server.py:1087:
\* the handler's own session_id, whoever holds the registry record now.
CleanupTarget(c) == conn_sid[c]

\* finally, server.py:1086-1093: the room of the handler's session id is removed.
Fin(c) ==
    /\ conn_pc[c] = "fin"
    /\ IF CleanupTarget(c) = NoSid
       THEN /\ conn_pc' = [conn_pc EXCEPT ![c] = "done"]
            /\ UNCHANGED rooms
       ELSE /\ rooms' = remove_session(rooms, CleanupTarget(c))
            /\ conn_pc' = [conn_pc EXCEPT ![c] = "fin_unreg"]
    /\ UNCHANGED <<now, sessions, lock, ws_state, conn_sid, conn_reconnect,
                   replaced, reg_last, reg_at, srv_closed>>
    /\ UNCHANGED beyondRegistry

\* finally, server.py:1094-1098: the id is unregistered and the session list
\* is broadcast (which prunes).
FinUnregister(c) ==
    /\ conn_pc[c] = "fin_unreg"
    /\ ~locked(lock)
    /\ sessions' = prune_stale(unregister(sessions, CleanupTarget(c)), now)
    /\ conn_pc' = [conn_pc EXCEPT ![c] = "done"]
    /\ UNCHANGED <<now, lock, rooms, ws_state, conn_sid, conn_reconnect,
                   replaced, reg_last, reg_at, srv_closed>>
    /\ UNCHANGED beyondRegistry

\* GET /api/sessions, server.py:728-733: list_sessions.
ListSessions ==
    /\ ~locked(lock)
    /\ sessions' = prune_stale(sessions, now)
    /\ UNCHANGED <<now, lock, rooms, ws_state, conn_pc, conn_sid,
                   conn_reconnect, replaced, reg_last, reg_at, srv_closed>>
    /\ UNCHANGED beyondRegistry

\* connect_client, registry.py:106-112.
connect_client(m, sid, v) ==
    IF sid \in DOMAIN m
    THEN [m EXCEPT ![sid] = [m[sid] EXCEPT !.connected_clients = @ \cup {v}]]
    ELSE m

ConnectClient(sid, v) ==
    /\ ~locked(lock)
    /\ sessions' = connect_client(sessions, sid, v)
    /\ UNCHANGED <<now, lock, rooms, ws_state, conn_pc, conn_sid,
                   conn_reconnect, replaced, reg_last, reg_at, srv_closed>>
    /\ UNCHANGED beyondRegistry

\* What connect_client returns, registry.py:108-112.
connect_client_found(m, sid) == sid \in DOMAIN m

\* A disconnect_client that detaches every viewer whatever client_id is.
DisconnectClears(m, sid, v) ==
    IF sid \in DOMAIN m
    THEN [m EXCEPT ![sid] = [m[sid] EXCEPT !.connected_clients = {}]]
    ELSE m

\* disconnect_client, registry.py:114-121: pop(client_id), or clear() when
\* client_id is None.
disconnect_client(m, sid, v) ==
    IF sid \in DOMAIN m
    THEN [m EXCEPT ![sid] = [m[sid] EXCEPT !.connected_clients =
                                IF v # NoViewer THEN @ \ {v} ELSE {}]]
    ELSE m

\* disconnect_client(session_id) with no client_id, registry.py:114-121.
DisconnectAll(sid) ==
    /\ ~locked(lock)
    /\ sessions' = disconnect_client(sessions, sid, NoViewer)
    /\ UNCHANGED <<now, lock, rooms, ws_state, conn_pc, conn_sid,
                   conn_reconnect, replaced, reg_last, reg_at, srv_closed>>
    /\ UNCHANGED beyondRegistry

\* client_ws: the viewer leaves its session, server.py:1153 and 1348.
DisconnectClient(sid, v) ==
    /\ ~locked(lock)
    /\ sessions' = disconnect_client(sessions, sid, v)
    /\ UNCHANGED <<now, lock, rooms, ws_state, conn_pc, conn_sid,
                   conn_reconnect, replaced, reg_last, reg_at, srv_closed>>
    /\ UNCHANGED beyondRegistry

RegNext ==
    \/ Tick
    \/ \E c \in Conns : Accept(c)
    \/ \E c \in Conns : PeerClose(c)
    \/ \E c \in Conns, sid \in SessionIds : RecvRegister(c, sid)
    \/ \E c \in Conns : RegisterStore(c)
    \/ \E c \in Conns : RegRecycle(c)
    \/ \E c \in Conns : RegAdd(c)
    \/ \E c \in Conns : RegBroadcast(c)
    \/ \E c \in Conns, sid \in SessionIds : RecvHeartbeat(c, sid)
    \/ \E c \in Conns : RecvClosed(c)
    \/ \E c \in Conns : Fin(c)
    \/ \E c \in Conns : FinUnregister(c)
    \/ ListSessions
    \/ \E sid \in SessionIds, v \in Viewers : ConnectClient(sid, v)
    \/ \E sid \in SessionIds, v \in Viewers : DisconnectClient(sid, v)

(***************************************************************************)
(* The noise filter and the voice commands, livekit_agent.py:61-151.       *)
(* A transcript is a sequence of atoms: a punctuation character, a space,  *)
(* or a whole word.  Words are never split, so a pattern's literal word    *)
(* matches exactly the atom of that word.                                  *)
(***************************************************************************)
\* The pieces transcripts are built from, and how many of them at most.
MaxPieces == 3
Pieces ==
    { <<"[", "music", "]">>, <<"[">>, <<"music", "]">>, <<">">>, <<"#">>,
      <<" ">>, <<".">>, <<"you">>, <<"a">>, <<"stop", " ", "listening">> }

RECURSIVE Concats(_)
Concats(n) ==
    IF n = 0 THEN { <<>> }
    ELSE LET shorter == Concats(n - 1)
         IN  shorter \cup { t \o p : t \in shorter, p \in Pieces }
Transcripts == Concats(MaxPieces)

\* "#" stands for a music-note glyph.
NoteAtoms == {"#"}
PunctAtoms == {"[", "]", "(", ")", ">", ".", "-"} \cup NoteAtoms
IsSpace(a) == a = " "
\* \w+: every atom that is neither punctuation nor a space is a word.
IsWord(a) == a \notin PunctAtoms /\ ~IsSpace(a)

\* len() of an atom in characters.
AtomLen(a) ==
    CASE a \in PunctAtoms \/ IsSpace(a) -> 1
      [] a = "a" -> 1
      [] a = "you" -> 3
      [] a = "stop" -> 4
      [] a = "music" -> 5
      [] a = "listening" -> 9
      [] OTHER -> 2

RECURSIVE CharLen(_)
CharLen(s) == IF s = <<>> THEN 0 ELSE AtomLen(Head(s)) + CharLen(Tail(s))

\* str.strip()
RECURSIVE LStrip(_)
LStrip(s) == IF s # <<>> /\ IsSpace(Head(s)) THEN LStrip(Tail(s)) ELSE s
RECURSIVE RStrip(_)
RStrip(s) ==
    IF s # <<>> /\ IsSpace(s[Len(s)]) THEN RStrip(SubSeq(s, 1, Len(s) - 1)) ELSE s
Strip(s) == RStrip(LStrip(s))

AllSpaces(s) == \A i \in 1..Len(s) : IsSpace(s[i])

\* w1 \s+ w2
SpacedPair(inner, w1, w2) ==
    /\ Len(inner) >= 3
    /\ inner[1] = w1
    /\ inner[Len(inner)] = w2
    /\ AllSpaces(SubSeq(inner, 2, Len(inner) - 1))

\* NOISE_STRIP_PATTERNS, livekit_agent.py:65-109: what may stand between the
\* brackets of a stage direction.
BracketWords ==
    {"silence", "inaudible", "music", "applause", "laughter", "typing",
     "clapping", "buzzing", "noise", "footsteps", "coughing", "sighing",
     "breathing", "static", "wind", "chime", "chimes"}
ParenWords ==
    {"silence", "music", "applause", "laughter", "noise", "footsteps",
     "coughing", "sighing", "breathing", "static", "wind", "chime", "chimes"}
SpacedPairs ==
    { <<"music", "playing">>, <<"door", "opens">>, <<"door", "closes">>,
      <<"bird", "chirping">>, <<"birds", "chirping">>, <<"phone", "ringing">>,
      <<"bell", "ring">>, <<"bell", "rings">> }
FixedPairs == { <<"blank", " ", "audio">>, <<"no", " ", "audio">> }
GenericEndings == {"playing", "music", "noise", "sound"}

\* [\w\s]+(?:playing|music|noise|sound), livekit_agent.py:108-109.
GenericInner(inner) ==
    /\ Len(inner) >= 2
    /\ inner[Len(inner)] \in GenericEndings

BracketInner(inner, open) ==
    \/ /\ Len(inner) = 1
       /\ inner[1] \in (IF open = "[" THEN BracketWords ELSE ParenWords)
    \/ \E p \in SpacedPairs : SpacedPair(inner, p[1], p[2])
    \/ inner \in FixedPairs
    \/ GenericInner(inner)

\* The closing bracket of a stage direction: the first `close` at or after j
\* with only word and space atoms before it; 0 when there is none.
RECURSIVE CloseAt(_, _, _)
CloseAt(s, j, close) ==
    IF j > Len(s) THEN 0
    ELSE IF s[j] = close THEN j
    ELSE IF IsWord(s[j]) \/ IsSpace(s[j]) THEN CloseAt(s, j + 1, close)
    ELSE 0

\* [♪♫]+: the length of the run of notes that starts at i.
RECURSIVE NoteRun(_, _)
NoteRun(s, i) ==
    IF i <= Len(s) /\ s[i] \in NoteAtoms THEN 1 + NoteRun(s, i + 1) ELSE 0

\* The length of the match of _NOISE_RE (livekit_agent.py:117-120) that starts
\* at position i of s; 0 when no alternative matches there.  Every bracketed
\* alternative ends at the first closing bracket, so the order of the
\* alternatives does not change the length.
MatchLen(s, i) ==
    CASE s[i] = "[" ->
            LET j == CloseAt(s, i + 1, "]")
            IN  IF j > 0 /\ BracketInner(SubSeq(s, i + 1, j - 1), "[")
                THEN j - i + 1 ELSE 0
      [] s[i] = "(" ->
            LET j == CloseAt(s, i + 1, ")")
            IN  IF j > 0 /\ BracketInner(SubSeq(s, i + 1, j - 1), "(")
                THEN j - i + 1 ELSE 0
      [] s[i] \in NoteAtoms -> NoteRun(s, i)
      [] s[i] = ">" -> IF i < Len(s) /\ s[i + 1] = ">" THEN 2 ELSE 0
      [] OTHER -> 0

\* _NOISE_RE.sub("", text), livekit_agent.py:128: one pass from the left, the
\* matches removed, the scan resumed after each match.
RECURSIVE NoiseSub(_, _)
NoiseSub(s, i) ==
    IF i > Len(s) THEN <<>>
    ELSE LET n == MatchLen(s, i)
         IN  IF n > 0 THEN NoiseSub(s, i + n)
             ELSE <<s[i]>> \o NoiseSub(s, i + 1)

\* re.sub(r"\s{2,}", " ", cleaned), livekit_agent.py:130.
RECURSIVE Collapse(_)
Collapse(s) ==
    IF Len(s) < 2 THEN s
    ELSE IF IsSpace(s[1]) /\ IsSpace(s[2]) THEN Collapse(Tail(s))
    ELSE <<s[1]>> \o Collapse(Tail(s))

\* strip_noise, livekit_agent.py:123-131.
strip_noise(text) == Strip(Collapse(NoiseSub(text, 1)))

\* _VOICE_COMMAND_PATTERNS, livekit_agent.py:135-143.
CommandVerbs == { <<"disable">>, <<"stop">>, <<"turn", " ", "off">>, <<"kill">> }
CommandObjects ==
    { <<"autolisten">>, <<"autolistening">>, <<"auto", "-", "listen">>,
      <<"auto", "-", "listening">>, <<"auto", " ", "listen">>,
      <<"auto", " ", "listening">>, <<"recording">>, <<"microphone">>,
      <<"the", " ", "mic">>, <<"the", " ", "microphone">> }

\* v \s+ o
VerbObject(core, v, o) ==
    /\ Len(core) >= Len(v) + 1 + Len(o)
    /\ SubSeq(core, 1, Len(v)) = v
    /\ SubSeq(core, Len(core) - Len(o) + 1, Len(core)) = o
    /\ AllSpaces(SubSeq(core, Len(v) + 1, Len(core) - Len(o)))

\* ^\s* ... \s*\.?\s*$ : the text without the spaces around it and without
\* one final full stop.
CommandCore(text) ==
    LET t == Strip(text)
    IN  IF t # <<>> /\ t[Len(t)] = "."
        THEN RStrip(SubSeq(t, 1, Len(t) - 1)) ELSE t

\* match_voice_command, livekit_agent.py:146-151: the command's name or "none".
match_voice_command(text) ==
    LET core == CommandCore(text)
    IN  IF \/ \E v \in CommandVerbs, o \in CommandObjects : VerbObject(core, v, o)
           \/ VerbObject(core, <<"stop">>, <<"listening">>)
        THEN "disable_auto_listen" ELSE "none"

(***************************************************************************)
(* SpecNoise: the noise filter applied to a transcript, and applied again  *)
(* to its own result.                                                      *)
(***************************************************************************)
NoiseInit ==
    /\ noise_in \in Transcripts
    /\ noise_out = <<>>
    /\ noise_n = 0

\* cleaned = strip_noise(text.strip()), livekit_agent.py:407.
ApplyFilter ==
    /\ noise_n = 0
    /\ noise_out' = <<strip_noise(Strip(noise_in))>>
    /\ noise_n' = 1
    /\ UNCHANGED noise_in
    /\ UNCHANGED <<regVars, roomVars, agentVars, taskVars>>

\* The filter applied to its own result.
ApplyFilterAgain ==
    /\ noise_n = 1
    /\ noise_out' = Append(noise_out, strip_noise(Strip(noise_out[1])))
    /\ noise_n' = 2
    /\ UNCHANGED noise_in
    /\ UNCHANGED <<regVars, roomVars, agentVars, taskVars>>

NoiseNext == ApplyFilter \/ ApplyFilterAgain

(***************************************************************************)
(* livekit_agent.py: one SessionRoom, the room of session RoomSid.         *)
(* Times are in milliseconds.                                              *)
(***************************************************************************)
\* VAD_FRAME_MS, livekit_agent.py:42.
VAD_FRAME_MS == 30
\* SILENCE_THRESHOLD_MS, config.py:93.
SILENCE_THRESHOLD_MS == 2500
\* MIN_SPEECH_DURATION_S, config.py:94: 0.5 s.
MIN_SPEECH_DURATION_MS == 500
\* ECHO_COOLDOWN_S, config.py:95: 0.8 s.
ECHO_COOLDOWN_MS == 800
\* MAX_RECORDING_S, config.py:97: 180 s.
MAX_RECORDING_MS == 180000
\* ERROR_RECOVERY_S, livekit_agent.py:155: 5.0 s.
ERROR_RECOVERY_MS == 5000
\* IDLE_DEBOUNCE_S, livekit_agent.py:158: 0.25 s.
IDLE_DEBOUNCE_MS == 250

\* Number of replies the assistant submits.
MaxReplies == 3
\* Number of audio frames of a stream whose labels are free.
MaxFrames == 10
\* Number of pauses of the audio stream in the room specification.
MaxGaps == 2

RoomSid == "s1"
None == "none"
NoTime == -1
Activities == {"Reading files", "Running tests"}
\* time.time() is far from 0.0, the initial value of _speaking_ended_at and
\* _idle_entered_at: no suppression window is open when the room is created.
ClockStart == ECHO_COOLDOWN_MS + IDLE_DEBOUNCE_MS

\* SessionRoom.__init__, livekit_agent.py:164-196.  _audio_buffer is kept as
\* the number of frames it holds, _error_timer as the time the live timer
\* fires at, _pending_listening as whether it is set.
RoomNew ==
    [running |-> FALSE,
     audio_buffer |-> 0,
     is_speaking |-> FALSE,
     waiting_for_response |-> FALSE,
     speaking_ended_at |-> 0,
     current_state |-> "idle",
     current_activity |-> None,
     error_timer |-> NoTime,
     pending_listening |-> FALSE,
     pending_listening_at |-> 0,
     idle_entered_at |-> 0,
     last_status_update_at |-> 0,
     response_queue |-> <<>>]

\* SessionRoom.start, livekit_agent.py:198-247: connected, worker created.
RoomStarted == [RoomNew EXCEPT !.running = TRUE]

\* The locals of _process_audio_stream, livekit_agent.py:305-308.
SegNew == [speech_detected |-> FALSE, silence_ms |-> 0, speech_start_time |-> NoTime]

\* No _handle_utterance is in progress.
UttNone == [pc |-> "none", ws |-> 0, text |-> <<>>]

\* _notify_status, livekit_agent.py:587-594.
NotifyStatus(r, state, activity, t) ==
    [r EXCEPT !.current_state = state,
              !.current_activity = activity,
              !.idle_entered_at = IF state = "idle" THEN t ELSE @]

\* A failure path that schedules no recovery.
NoRecoveryScheduled(r, t) == r

\* _schedule_error_recovery, livekit_agent.py:596-600: the live timer is
\* cancelled and a new one sleeps ERROR_RECOVERY_S.
schedule_error_recovery(r, t) == [r EXCEPT !.error_timer = t + ERROR_RECOVERY_MS]

\* asyncio.Queue: put_nowait appends.
put_nowait(q, item) == Append(q, item)

\* The order a worker that takes the newest reply first would give.
QueueTakeNewest(q) == [item |-> q[Len(q)], rest |-> SubSeq(q, 1, Len(q) - 1)]

\* asyncio.Queue: get takes the oldest item.
QueueTake(q) == [item |-> Head(q), rest |-> Tail(q)]

\* A worker that starts a playback without waiting for the one in progress.
WorkerNeverWaits(p) == TRUE

\* _response_worker, livekit_agent.py:465-468: the worker is at queue.get()
\* only when the playback it awaited has returned.
WorkerReady(p) == DOMAIN p = {}

\* A "listening" handler that records nothing while a reply is playing or
\* queued.
ListeningDropped(r, t) ==
    IF r.is_speaking \/ r.response_queue # <<>>
    THEN r
    ELSE NotifyStatus([r EXCEPT !.waiting_for_response = FALSE], "idle", None, t)

\* A "listening" handler that goes to idle without looking at the playback.
ListeningAlwaysIdle(r, t) ==
    NotifyStatus([r EXCEPT !.waiting_for_response = FALSE], "idle", None, t)

\* handle_claude_listening, livekit_agent.py:534-544.
handle_claude_listening(r, t) ==
    IF r.is_speaking \/ r.response_queue # <<>>
    THEN [r EXCEPT !.pending_listening = TRUE, !.pending_listening_at = t]
    ELSE NotifyStatus([r EXCEPT !.waiting_for_response = FALSE], "idle", None, t)

\* handle_text_message, livekit_agent.py:546-549.
handle_text_message(r, t) ==
    NotifyStatus([r EXCEPT !.waiting_for_response = TRUE],
                 "thinking", "Processing text message...", t)

\* handle_status_update, livekit_agent.py:551-555.
handle_status_update(r, activity, t) ==
    NotifyStatus([r EXCEPT !.last_status_update_at = t], "thinking", activity, t)

\* A playback that always ends in thinking, "Waiting for Claude...".
AfterPlaybackAlwaysWaiting(r, tts_started_at, t) ==
    LET r1 == [r EXCEPT !.is_speaking = FALSE,
                        !.speaking_ended_at = t,
                        !.audio_buffer = 0]
    IN  IF r1.response_queue # <<>> THEN r1
        ELSE NotifyStatus([r1 EXCEPT !.pending_listening = FALSE],
                          "thinking", "Waiting for Claude...", t)

\* A playback end that consults the pending "listening" whatever the queue
\* holds.
AfterPlaybackIgnoresQueue(r, tts_started_at, t) ==
    LET r1 == [r EXCEPT !.is_speaking = FALSE,
                        !.speaking_ended_at = t,
                        !.audio_buffer = 0]
    IN  IF r1.pending_listening
           /\ r1.last_status_update_at <= r1.pending_listening_at
        THEN NotifyStatus([r1 EXCEPT !.pending_listening = FALSE,
                                     !.waiting_for_response = FALSE],
                          "idle", None, t)
        ELSE IF r1.response_queue # <<>> THEN r1
        ELSE IF r1.last_status_update_at > tts_started_at
        THEN NotifyStatus([r1 EXCEPT !.pending_listening = FALSE],
                          "thinking", r1.current_activity, t)
        ELSE NotifyStatus([r1 EXCEPT !.pending_listening = FALSE],
                          "thinking", "Waiting for Claude...", t)

\* A playback end that honours a pending "listening" only when it was
\* recorded strictly after the last activity update.
AfterPlaybackStrictlyAfter(r, tts_started_at, t) ==
    LET r1 == [r EXCEPT !.is_speaking = FALSE,
                        !.speaking_ended_at = t,
                        !.audio_buffer = 0]
    IN  IF r1.response_queue # <<>> THEN r1
        ELSE IF r1.pending_listening
                /\ r1.last_status_update_at < r1.pending_listening_at
        THEN NotifyStatus([r1 EXCEPT !.pending_listening = FALSE,
                                     !.waiting_for_response = FALSE],
                          "idle", None, t)
        ELSE IF r1.last_status_update_at > tts_started_at
        THEN NotifyStatus([r1 EXCEPT !.pending_listening = FALSE],
                          "thinking", r1.current_activity, t)
        ELSE NotifyStatus([r1 EXCEPT !.pending_listening = FALSE],
                          "thinking", "Waiting for Claude...", t)

\* The finally block of _play_tts_response, livekit_agent.py:510-532.
AfterPlayback(r, tts_started_at, t) ==
    LET r1 == [r EXCEPT !.is_speaking = FALSE,
                        !.speaking_ended_at = t,
                        !.audio_buffer = 0]
    IN  IF r1.response_queue # <<>> THEN r1
        ELSE IF r1.pending_listening
                /\ r1.last_status_update_at <= r1.pending_listening_at
        THEN NotifyStatus([r1 EXCEPT !.pending_listening = FALSE,
                                     !.waiting_for_response = FALSE],
                          "idle", None, t)
        ELSE IF r1.last_status_update_at > tts_started_at
        THEN NotifyStatus([r1 EXCEPT !.pending_listening = FALSE],
                          "thinking", r1.current_activity, t)
        ELSE NotifyStatus([r1 EXCEPT !.pending_listening = FALSE],
                          "thinking", "Waiting for Claude...", t)

\* The first lines of _play_tts_response, livekit_agent.py:478-480, for the
\* reply the worker took from the queue.
BeginPlayback(r, q, t) ==
    NotifyStatus([r EXCEPT !.is_speaking = TRUE, !.response_queue = q.rest],
                 "speaking", None, t)

Activation(t) == [pc |-> "synth", tts_started_at |-> t]

\* A session connection is open and its handler is reading messages.
SessionConnected ==
    \E c \in Conns : conn_pc[c] = "recv" /\ ws_state[c] = "open"

\* History of the status events handled while a playback is in progress:
\* whether a "listening" was among them, and the last of them, which for an
\* activity update is its label.
RaceNone == [listened |-> FALSE, last |-> None]
Noted(kind) ==
    IF ~room.is_speaking THEN hrace
    ELSE [listened |-> hrace.listened \/ kind = "listening", last |-> kind]

\* History of how the last playback ended, kept when it ended in the race of a
\* "listening" and a later activity update.
DoneNone == [race |-> FALSE, label |-> None, state |-> None, activity |-> None]

regUnchanged == UNCHANGED <<regVars, noiseVars, agentVars, taskVars>>
audioUnchanged == UNCHANGED <<cfg, stream, seg, utt, hseg, hutt>>

\* session_ws, response branch, server.py:1009-1020: the task it creates runs
\* handle_claude_response, livekit_agent.py:459-461 and 651-654.
Reply ==
    /\ SessionConnected
    /\ RoomSid \in rooms
    /\ hplay.submitted < MaxReplies
    /\ LET id == hplay.submitted + 1
           q == put_nowait(room.response_queue, id)
       IN  /\ room' = [room EXCEPT !.response_queue = q]
           /\ hplay' = [hplay EXCEPT !.submitted = id,
                                     !.burst = @ \/ (id = MaxReplies /\ hplay.completed = <<>>),
                                     !.listening_last = FALSE]
    /\ UNCHANGED <<clock, playing, hrace, hdone>>
    /\ audioUnchanged
    /\ regUnchanged

\* session_ws, listening branch, server.py:1022-1026.
Listening ==
    /\ SessionConnected
    /\ RoomSid \in rooms
    /\ room' = handle_claude_listening(room, clock)
    /\ hrace' = Noted("listening")
    /\ hplay' = [hplay EXCEPT !.listening_last = TRUE]
    /\ UNCHANGED <<clock, playing, hdone>>
    /\ audioUnchanged
    /\ regUnchanged

\* session_ws, status_update branch, server.py:1039-1044.
StatusUpdate(activity) ==
    /\ SessionConnected
    /\ RoomSid \in rooms
    /\ room' = handle_status_update(room, activity, clock)
    /\ hrace' = Noted(activity)
    /\ hplay' = [hplay EXCEPT !.listening_last = FALSE]
    /\ UNCHANGED <<clock, playing, hdone>>
    /\ audioUnchanged
    /\ regUnchanged

\* client_ws, text_message branch, server.py:1189-1211, and
\* send_message_to_session, server.py:793-825.
TextMessage ==
    /\ RoomSid \in DOMAIN sessions
    /\ ~is_stale(sessions[RoomSid], now)
    /\ RoomSid \in rooms
    /\ room' = handle_text_message(room, clock)
    /\ hrace' = Noted("other")
    /\ hplay' = [hplay EXCEPT !.listening_last = FALSE]
    /\ UNCHANGED <<clock, playing, hdone>>
    /\ audioUnchanged
    /\ regUnchanged

\* _response_worker, livekit_agent.py:463-468: queue.get() returns and
\* _play_tts_response runs to its first await.
WorkerGet ==
    /\ room.running
    /\ room.response_queue # <<>>
    /\ WorkerReady(playing)
    /\ LET q == QueueTake(room.response_queue)
       IN  /\ room' = BeginPlayback(room, q, clock)
           /\ playing' = Put(playing, q.item, Activation(clock))
           /\ hplay' = [hplay EXCEPT !.started = Append(@, q.item)]
    /\ hrace' = RaceNone
    /\ UNCHANGED <<clock, hdone>>
    /\ audioUnchanged
    /\ regUnchanged

\* The synthesis stream delivered audio and ended, livekit_agent.py:486-508:
\* the playback sleeps for the rest of the audio.
SynthOk(id) ==
    /\ id \in DOMAIN playing
    /\ playing[id].pc = "synth"
    /\ playing' = [playing EXCEPT ![id].pc = "sleep"]
    /\ UNCHANGED <<clock, room, hplay, hrace, hdone>>
    /\ audioUnchanged
    /\ regUnchanged

\* The synthesis stream raised or ended before any audio,
\* livekit_agent.py:490-499: status error, then the await of the notification.
SynthFails(id) ==
    /\ id \in DOMAIN playing
    /\ playing[id].pc = "synth"
    /\ playing' = [playing EXCEPT ![id].pc = "error"]
    /\ room' = NotifyStatus(room, "error", "Text-to-speech failed", clock)
    /\ hrace' = Noted("other")
    /\ UNCHANGED <<clock, hplay, hdone>>
    /\ audioUnchanged
    /\ regUnchanged

\* The end of one activation of _play_tts_response: the finally block, and
\* when it returns with a non-empty queue the worker's next get and the first
\* lines of the next playback, which run without an await in between.
Finish(id, before) ==
    LET left == Pop(playing, id)
        r1 == AfterPlayback(before, playing[id].tts_started_at, clock)
        race == /\ r1.response_queue = <<>>
                /\ hrace.listened
                /\ hrace.last \in Activities
                /\ before.last_status_update_at > before.pending_listening_at
        chained == r1.response_queue # <<>> /\ r1.running /\ WorkerReady(left)
        q == QueueTake(r1.response_queue)
    IN  /\ hdone' = IF race
                     THEN [race |-> TRUE,
                           label |-> hrace.last,
                           state |-> r1.current_state,
                           activity |-> r1.current_activity]
                     ELSE DoneNone
        /\ IF chained
           THEN /\ room' = BeginPlayback(r1, q, clock)
                /\ playing' = Put(left, q.item, Activation(clock))
                /\ hplay' = [hplay EXCEPT !.started = Append(@, q.item),
                                          !.completed = Append(@, id)]
                /\ hrace' = RaceNone
           ELSE /\ room' = r1
                /\ playing' = left
                /\ hplay' = [hplay EXCEPT !.completed = Append(@, id)]
                /\ hrace' = hrace
        /\ UNCHANGED clock
        /\ audioUnchanged
        /\ regUnchanged

\* livekit_agent.py:494-495 and 500-501, then the finally block.
ErrorReturn(id) ==
    /\ id \in DOMAIN playing
    /\ playing[id].pc = "error"
    /\ Finish(id, schedule_error_recovery(room, clock))

\* asyncio.sleep(remaining) is over, livekit_agent.py:507-508, then the
\* finally block.
SleepDone(id) ==
    /\ id \in DOMAIN playing
    /\ playing[id].pc = "sleep"
    /\ Finish(id, room)

\* _recover_from_error, livekit_agent.py:602-611, once its sleep is over.
TimerFires ==
    /\ room.error_timer # NoTime
    /\ clock >= room.error_timer
    /\ room' = NotifyStatus([room EXCEPT !.waiting_for_response = FALSE,
                                         !.error_timer = NoTime],
                            "idle", None, clock)
    /\ hrace' = Noted("other")
    /\ UNCHANGED <<clock, playing, hplay, hdone>>
    /\ audioUnchanged
    /\ regUnchanged

\* Time passes while the audio stream delivers no frame.
Elapse ==
    /\ stream.gaps > 0
    /\ clock' = clock + ERROR_RECOVERY_MS
    /\ stream' = [stream EXCEPT !.gaps = @ - 1]
    /\ UNCHANGED <<cfg, room, playing, seg, utt, hplay, hrace, hdone, hseg, hutt>>
    /\ regUnchanged

(***************************************************************************)
(* _process_audio_stream, livekit_agent.py:299-363.                        *)
(***************************************************************************)
\* A suppression that ends with the playback, with no echo cooldown.
SuppressedNoCooldown(r, t) ==
    \/ r.waiting_for_response
    \/ r.is_speaking
    \/ t - r.idle_entered_at < IDLE_DEBOUNCE_MS

\* livekit_agent.py:314-319: the frame is dropped.
Suppressed(r, t) ==
    \/ r.waiting_for_response
    \/ r.is_speaking
    \/ t - r.speaking_ended_at < ECHO_COOLDOWN_MS
    \/ t - r.idle_entered_at < IDLE_DEBOUNCE_MS

\* livekit_agent.py:333-342.
Segment(s, is_speech, t) ==
    IF is_speech
    THEN [speech_detected |-> TRUE,
          silence_ms |-> 0,
          speech_start_time |-> IF s.speech_detected THEN s.speech_start_time ELSE t]
    ELSE IF s.speech_detected
    THEN [s EXCEPT !.silence_ms = @ + VAD_FRAME_MS]
    ELSE s

\* An end-of-speech rule that does not wait for MIN_SPEECH_DURATION_S.
ShouldEndNoMinimum(silence_ms, speech_duration, c) ==
    \/ speech_duration >= c.max_recording
    \/ silence_ms >= c.silence_threshold

\* An end-of-speech rule that knows the recording cap only.
ShouldEndAtCapOnly(silence_ms, speech_duration, c) ==
    speech_duration >= c.max_recording

\* timed_out or silence_ended, livekit_agent.py:347-350.
ShouldEnd(silence_ms, speech_duration, c) ==
    \/ speech_duration >= c.max_recording
    \/ /\ silence_ms >= c.silence_threshold
       /\ speech_duration >= c.min_speech

\* livekit_agent.py:345-350.
UtteranceEnded(s, t, c) ==
    /\ s.speech_detected
    /\ s.speech_start_time # NoTime
    /\ ShouldEnd(s.silence_ms, t - s.speech_start_time, c)

\* One frame of the stream, 30 ms after the one before.  When the frame ends
\* the utterance, _handle_utterance runs to its first await,
\* livekit_agent.py:385-396.
ProcessFrame(is_speech) ==
    /\ room.running
    /\ utt.pc = "none"
    /\ stream.seen < stream.horizon
    /\ stream.script # <<>> => is_speech = stream.script[stream.seen + 1]
    /\ LET t == clock + VAD_FRAME_MS
           s1 == Segment(seg, is_speech, t)
           r1 == [room EXCEPT !.audio_buffer = @ + 1]
           w == Append(hseg.window, [speech |-> is_speech, at |-> t])
           found == RoomSid \in DOMAIN sessions
       IN  /\ clock' = t
           /\ stream' = [stream EXCEPT !.seen = @ + 1]
           /\ IF Suppressed(room, t)
              THEN UNCHANGED <<room, seg, utt, hseg>>
              ELSE /\ seg' = s1
                   /\ IF UtteranceEnded(s1, t, cfg)
                      THEN /\ room' = IF found
                                      THEN NotifyStatus(r1, "thinking", "Transcribing speech...", t)
                                      ELSE r1
                           /\ utt' = [pc |-> "transcribe",
                                      ws |-> IF found THEN sessions[RoomSid].ws ELSE 0,
                                      text |-> <<>>]
                           /\ hseg' = [window |-> w,
                                       fired |-> TRUE,
                                       fired_window |-> w,
                                       fired_elapsed |-> t - s1.speech_start_time,
                                       fired_silence |-> s1.silence_ms]
                      ELSE /\ room' = r1
                           /\ utt' = utt
                           /\ hseg' = [hseg EXCEPT !.window = w]
    /\ UNCHANGED <<cfg, playing, hplay, hrace, hdone, hutt>>
    /\ regUnchanged

(***************************************************************************)
(* _handle_utterance, livekit_agent.py:385-457.                            *)
(***************************************************************************)
\* History of the utterance being handled: whether it has a transcript, the
\* transcript, the text sent to the session, whether the handler has set
\* waiting_for_response, whether the transcription failed.
HuttNone == [n |-> 0, raw |-> <<>>, sent |-> <<>>, set_waiting |-> FALSE,
             failed |-> FALSE]

\* cleaned = strip_noise(text.strip()), livekit_agent.py:407.
Cleaned(text) == strip_noise(Strip(text))

\* A handler that does not look for voice commands.
ClassifyNoCommands(text) ==
    IF text = <<>> \/ CharLen(text) < 2 THEN "noise" ELSE "forward"

\* livekit_agent.py:415-427: the empty check, then the command check.
Classify(text) ==
    IF text = <<>> \/ CharLen(text) < 2 THEN "noise"
    ELSE IF match_voice_command(text) # None THEN "command"
    ELSE "forward"

utteranceUnchanged == UNCHANGED <<clock, cfg, stream, playing, seg, hplay, hdone, hseg>>

\* audio_pipeline.transcribe raises, livekit_agent.py:399-402.
TranscribeRaises ==
    /\ utt.pc = "transcribe"
    /\ IF utt.ws # 0
       THEN /\ room' = NotifyStatus(room, "error", "Speech-to-text failed", clock)
            /\ utt' = [utt EXCEPT !.pc = "stt_error"]
            /\ hrace' = Noted("other")
       ELSE /\ utt' = [utt EXCEPT !.pc = "return"]
            /\ UNCHANGED <<room, hrace>>
    /\ hutt' = [hutt EXCEPT !.failed = TRUE]
    /\ utteranceUnchanged
    /\ regUnchanged

\* livekit_agent.py:403-404.
SttErrorReturn ==
    /\ utt.pc = "stt_error"
    /\ room' = schedule_error_recovery(room, clock)
    /\ utt' = [utt EXCEPT !.pc = "return"]
    /\ UNCHANGED <<hrace, hutt>>
    /\ utteranceUnchanged
    /\ regUnchanged

\* audio_pipeline.transcribe returns None (audio.py:30-57, a failed request):
\* text.strip() raises at livekit_agent.py:407 and the audio loop catches it,
\* livekit_agent.py:357-358.
TranscribeNone ==
    /\ utt.pc = "transcribe"
    /\ utt' = [utt EXCEPT !.pc = "return"]
    /\ hutt' = [hutt EXCEPT !.failed = TRUE]
    /\ UNCHANGED <<room, hrace>>
    /\ utteranceUnchanged
    /\ regUnchanged

\* audio_pipeline.transcribe returns a transcript, livekit_agent.py:406-440.
TranscribeReturns(raw) ==
    /\ utt.pc = "transcribe"
    /\ LET text == Cleaned(raw)
           class == Classify(text)
           idle == NotifyStatus(room, "idle", None, clock)
       IN  /\ hutt' = [n |-> 1, raw |-> raw, sent |-> <<>>, set_waiting |-> FALSE,
                     failed |-> FALSE]
           /\ CASE class = "noise" ->
                     /\ room' = IF utt.ws # 0 THEN idle ELSE room
                     /\ utt' = [utt EXCEPT !.pc = "return"]
                [] class = "command" ->
                     /\ room' = idle
                     /\ utt' = [utt EXCEPT !.pc = "return"]
                [] OTHER ->
                     /\ room' = room
                     /\ utt' = IF utt.ws = 0
                               THEN [utt EXCEPT !.pc = "return"]
                               ELSE [utt EXCEPT !.pc = "send", !.text = text]
           /\ hrace' = IF room' # room THEN Noted("other") ELSE hrace
    /\ utteranceUnchanged
    /\ regUnchanged

\* session.ws.send_text succeeds, livekit_agent.py:446-454.
SendOk ==
    /\ utt.pc = "send"
    /\ ws_state[utt.ws] = "open"
    /\ room' = NotifyStatus([room EXCEPT !.waiting_for_response = TRUE],
                            "thinking", "Waiting for Claude...", clock)
    /\ utt' = [utt EXCEPT !.pc = "return"]
    /\ hutt' = [hutt EXCEPT !.sent = <<utt.text>>, !.set_waiting = TRUE]
    /\ hrace' = Noted("other")
    /\ utteranceUnchanged
    /\ regUnchanged

\* session.ws.send_text raises, livekit_agent.py:455-456.
SendFails ==
    /\ utt.pc = "send"
    /\ ws_state[utt.ws] # "open"
    /\ utt' = [utt EXCEPT !.pc = "unregister"]
    /\ UNCHANGED <<room, hrace, hutt>>
    /\ utteranceUnchanged
    /\ regUnchanged

\* await self.registry.unregister(self.session_id), livekit_agent.py:457.
SendFailsUnregister ==
    /\ utt.pc = "unregister"
    /\ ~locked(lock)
    /\ sessions' = unregister(sessions, RoomSid)
    /\ utt' = [utt EXCEPT !.pc = "return"]
    /\ UNCHANGED <<room, hrace, hutt>>
    /\ utteranceUnchanged
    /\ UNCHANGED <<now, lock, rooms, ws_state, conn_pc, conn_sid, conn_reconnect,
                   replaced, reg_last, reg_at, srv_closed, noiseVars, agentVars,
                   taskVars>>

\* _handle_utterance has returned or raised: livekit_agent.py:360-363.
UtteranceReturn ==
    /\ utt.pc = "return"
    /\ room' = [room EXCEPT !.audio_buffer = 0]
    /\ seg' = SegNew
    /\ utt' = UttNone
    /\ hseg' = [hseg EXCEPT !.window = <<>>]
    /\ hutt' = HuttNone
    /\ UNCHANGED <<clock, cfg, stream, playing, hplay, hrace, hdone>>
    /\ regUnchanged

\* kill_session, server.py:775-790: the record is removed, the room is not.
KillSession ==
    /\ ~locked(lock)
    /\ RoomSid \in DOMAIN sessions
    /\ sessions' = prune_stale(unregister(sessions, RoomSid), now)
    /\ UNCHANGED <<now, lock, rooms, ws_state, conn_pc, conn_sid, conn_reconnect,
                   replaced, reg_last, reg_at, srv_closed, noiseVars, agentVars,
                   taskVars>>
    /\ UNCHANGED <<clock, cfg, stream, room, playing, seg, utt,
                   hplay, hrace, hdone, hseg, hutt>>

(***************************************************************************)
(* Initial states of the room specifications: session RoomSid registered   *)
(* over connection 1, its room started.                                    *)
(***************************************************************************)
RegisteredInit ==
    /\ now = 0
    /\ sessions = Put([x \in {} |-> 0], RoomSid, Session(1, 0, {}))
    /\ lock = 0
    /\ rooms = add_session({}, RoomSid)
    /\ ws_state = [c \in Conns |-> IF c = 1 THEN "open" ELSE "new"]
    /\ conn_pc = [c \in Conns |-> IF c = 1 THEN "recv" ELSE "init"]
    /\ conn_sid = [c \in Conns |-> IF c = 1 THEN RoomSid ELSE NoSid]
    /\ conn_reconnect = [c \in Conns |-> FALSE]
    /\ replaced = {}
    /\ reg_last = [s \in SessionIds |-> IF s = RoomSid THEN 1 ELSE 0]
    /\ reg_at = [s \in SessionIds |-> 0]
    /\ srv_closed = {}

Config(th, mn, mx) == [silence_threshold |-> th, min_speech |-> mn, max_recording |-> mx]
Stream(frames, script, gaps) == [seen |-> 0, horizon |-> frames, script |-> script, gaps |-> gaps]
DefaultConfig == Config(SILENCE_THRESHOLD_MS, MIN_SPEECH_DURATION_MS, MAX_RECORDING_MS)

\* RelayAgent.__init__, livekit_agent.py:617-622: no rooms.
AgentIdle ==
    /\ agent_rooms = [x \in {} |-> 0]
    /\ agent_made = 0

\* The identities of the remote participants of the room.
Identities == {"p1", "p2"}

\* No handle of an ingestion task.
NoTask == 0

\* SessionRoom.__init__, livekit_agent.py:192: no ingestion task.
IngestNone == [tasks |-> <<>>,
               audio_stream_tasks |-> [p \in Identities |-> NoTask],
               ready |-> <<>>]

\* remove_session has not been called; no reply has published a chunk.
RemovalNone == [phase |-> "none", published |-> [id \in 1..MaxReplies |-> 0]]

RoomState(r) ==
    /\ AgentIdle
    /\ ingest = IngestNone
    /\ removal = RemovalNone
    /\ clock = ClockStart
    /\ room = r
    /\ playing = [x \in {} |-> 0]
    /\ seg = SegNew
    /\ utt = UttNone
    /\ hplay = [submitted |-> 0, started |-> <<>>, completed |-> <<>>, burst |-> FALSE,
               listening_last |-> FALSE]
    /\ hrace = RaceNone
    /\ hdone = DoneNone
    /\ hseg = [window |-> <<>>, fired |-> FALSE, fired_window |-> <<>>,
               fired_elapsed |-> 0, fired_silence |-> 0]
    /\ hutt = HuttNone

NoiseIdle ==
    /\ noise_in = <<>>
    /\ noise_out = <<>>
    /\ noise_n = 0

\* The room does not exist: the registry specification.
RoomIdle ==
    /\ RoomState(RoomNew)
    /\ cfg = DefaultConfig
    /\ stream = Stream(0, <<>>, 0)

(***************************************************************************)
(* SpecRoom: the room's replies, playbacks, status events and error timer. *)
(***************************************************************************)
\* A speech frame followed by a silence frame ends an utterance.
QuickConfig == Config(VAD_FRAME_MS, 0, MAX_RECORDING_MS)

RoomInit ==
    /\ RegisteredInit
    /\ RoomState(RoomStarted)
    /\ cfg = QuickConfig
    /\ stream = Stream(0, <<>>, MaxGaps)
    /\ NoiseIdle

RoomNext ==
    \/ Reply
    \/ Listening
    \/ \E a \in Activities : StatusUpdate(a)
    \/ TextMessage
    \/ WorkerGet
    \/ \E id \in 1..MaxReplies : SynthOk(id)
    \/ \E id \in 1..MaxReplies : SynthFails(id)
    \/ \E id \in 1..MaxReplies : ErrorReturn(id)
    \/ \E id \in 1..MaxReplies : SleepDone(id)
    \/ TimerFires
    \/ Elapse

SpecRoom == RoomInit /\ [][RoomNext]_vars

(***************************************************************************)
(* SpecSeg: the segmenter over every stream of MaxFrames frames, for a     *)
(* range of thresholds, with the events that open and close the            *)
(* suppression of ingestion.                                               *)
(***************************************************************************)
SegConfigs ==
    { Config(th, mn, mx) : th \in {30, 50, 90}, mn \in {0, 60, 100}, mx \in {90, 100, 150} }

SegTranscripts == { <<"you">>, <<"[", "music", "]">> }

SegInit ==
    /\ RegisteredInit
    /\ RoomState(RoomStarted)
    /\ cfg \in SegConfigs
    /\ stream = Stream(MaxFrames, <<>>, 0)
    /\ NoiseIdle

SegNext ==
    \/ \E b \in BOOLEAN : ProcessFrame(b)
    \/ TextMessage
    \/ Listening
    \/ TranscribeNone
    \/ \E t \in SegTranscripts : TranscribeReturns(t)
    \/ SendOk
    \/ UtteranceReturn

SpecSeg == SegInit /\ [][SegNext]_vars

(***************************************************************************)
(* SpecScenario: the default thresholds and a stream of SpeechFrames       *)
(* speech frames followed by SilenceFrames silence frames.                 *)
(***************************************************************************)
SpeechFrames == 40
SilenceFrames == 90
ScenarioScript == [i \in 1..(SpeechFrames + SilenceFrames) |-> i <= SpeechFrames]

ScenarioInit ==
    /\ RegisteredInit
    /\ RoomState(RoomStarted)
    /\ cfg = DefaultConfig
    /\ stream = Stream(Len(ScenarioScript), ScenarioScript, 0)
    /\ NoiseIdle

ScenarioNext ==
    \/ \E b \in BOOLEAN : ProcessFrame(b)
    \/ TranscribeNone
    \/ \E t \in SegTranscripts : TranscribeReturns(t)
    \/ SendOk
    \/ UtteranceReturn

SpecScenario == ScenarioInit /\ [][ScenarioNext]_vars

(***************************************************************************)
(* SpecUtterance: two utterances, every transcript of Transcripts, every   *)
(* outcome of the transcription and of the send.                           *)
(***************************************************************************)
\* A word and a pause; the pause goes on for longer than the idle debounce;
\* a second word and a pause.
UtteranceScript ==
    <<TRUE, FALSE>> \o [i \in 1..((IDLE_DEBOUNCE_MS \div VAD_FRAME_MS) + 1) |-> FALSE]
                    \o <<TRUE, FALSE>>

UtteranceInit ==
    /\ RegisteredInit
    /\ RoomState(RoomStarted)
    /\ cfg = QuickConfig
    /\ stream = Stream(Len(UtteranceScript), UtteranceScript, 0)
    /\ NoiseIdle

UtteranceNext ==
    \/ \E b \in BOOLEAN : ProcessFrame(b)
    \/ TranscribeRaises
    \/ SttErrorReturn
    \/ TranscribeNone
    \/ \E t \in Transcripts : TranscribeReturns(t)
    \/ SendOk
    \/ SendFails
    \/ SendFailsUnregister
    \/ UtteranceReturn
    \/ KillSession
    \/ \E c \in Conns : PeerClose(c)

SpecUtterance == UtteranceInit /\ [][UtteranceNext]_vars

NoiseSpecInit ==
    /\ NoiseInit
    /\ RegInit
    /\ RoomIdle

SpecNoise == NoiseSpecInit /\ [][NoiseNext]_vars

Init ==
    /\ RegInit
    /\ RoomIdle
    /\ NoiseIdle
Next == RegNext
Spec == Init /\ [][Next]_vars

(***************************************************************************)
(* Claims about the registry and the connection handler.                   *)
(***************************************************************************)
\* Every handler is at a quiescent point: not yet accepted, waiting in
\* receive_text, or finished.
Quiescent == \A c \in Conns : conn_pc[c] \in {"init", "recv", "done"}

\* C1: after register on an id that has a record, exactly one transport of
\* the session is live: the replaced transport has been closed by register,
\* and the record holds the newly supplied transport, which register has not
\* closed.  Stated for every re-registration made so far, at the states where
\* no register is in progress (the lock is free) and the re-registration is
\* the last registration of its id.
C1_OneLiveTransport ==
    \A r \in replaced :
        LET sid == r[1]
            old == r[2]
            new == r[3]
        IN  /\ old \in srv_closed
            /\ (lock = 0 /\ sid \in DOMAIN sessions /\ reg_last[sid] = new)
                  => /\ sessions[sid].ws = new
                     /\ new \notin srv_closed

\* C2: a reconnect is a continuation.  When connection n re-registered an id
\* over another transport, n is waiting for its next message on an open
\* transport, every handler is quiescent and the registration is too recent
\* to be stale, the registry still holds the id with transport n and the id
\* still has a room.
C2_ReconnectIsContinuation ==
    \A r \in replaced :
        LET sid == r[1]
            old == r[2]
            n == r[3]
        IN  (/\ old # n
             /\ reg_last[sid] = n
             /\ conn_sid[n] = sid
             /\ conn_pc[n] = "recv"
             /\ ws_state[n] = "open"
             /\ Quiescent
             /\ now - reg_at[sid] <= SESSION_TIMEOUT)
            => /\ sid \in DOMAIN sessions
               /\ sessions[sid].ws = n
               /\ sid \in rooms

(***************************************************************************)
(* Claims about the reply queue and the playback handler (SpecRoom).       *)
(***************************************************************************)
\* C3: for one session there are never two simultaneous speech outputs: at
\* every moment at most one reply is inside _play_tts_response, whatever
\* replies, "listening" signals and activity updates arrive and however they
\* interleave.
C3_OneSpeechOutput == Cardinality(DOMAIN playing) <= 1

\* A reply is being played while another waits in the queue, and a
\* "listening" signal and an activity update have arrived during the playback.
C3_Witness ==
    /\ Cardinality(DOMAIN playing) = 1
    /\ room.response_queue # <<>>
    /\ hrace.listened
    /\ hrace.last \in Activities

\* C4: the replies submitted to a live session are played once each and in
\* the order of submission: the playbacks started so far followed by the
\* replies still queued are exactly the replies submitted, in order, and the
\* playbacks completed are the ones started except the one in progress.
C4_PlayedInSubmissionOrder ==
    /\ hplay.started \o room.response_queue = [i \in 1..hplay.submitted |-> i]
    /\ Len(hplay.completed) <= Len(hplay.started)
    /\ hplay.completed = SubSeq(hplay.started, 1, Len(hplay.completed))
    /\ DOMAIN playing =
          { hplay.started[i] : i \in (Len(hplay.completed) + 1)..Len(hplay.started) }

\* All MaxReplies replies were submitted before the first playback completed,
\* and all of them have been played.
C4_Witness ==
    /\ hplay.burst
    /\ hplay.completed = [i \in 1..MaxReplies |-> i]

C6_HardCap ==
    hseg.fired => hseg.fired_elapsed < cfg.max_recording + VAD_FRAME_MS

\* The segmentation rule, computed from the frames admitted since the
\* segmenter was last reset: w is the sequence of their labels and times.
SpeechAt(w) == { i \in 1..Len(w) : w[i].speech }
FirstSpeech(w) == CHOOSE i \in SpeechAt(w) : \A j \in SpeechAt(w) : i <= j
LastSpeech(w) == CHOOSE i \in SpeechAt(w) : \A j \in SpeechAt(w) : i >= j
RuleSilence(w) ==
    IF SpeechAt(w) = {} THEN 0 ELSE VAD_FRAME_MS * (Len(w) - LastSpeech(w))
RuleElapsed(w) == w[Len(w)].at - w[FirstSpeech(w)].at
RuleFires(w, c) ==
    /\ SpeechAt(w) # {}
    /\ \/ /\ RuleSilence(w) >= c.silence_threshold
          /\ RuleElapsed(w) >= c.min_speech
       \/ RuleElapsed(w) >= c.max_recording
Prefix(w, k) == SubSeq(w, 1, k)

\* C7: segmentation is determined by the frame labels and the thresholds.  At
\* every frame the segmenter's speech_detected and silence_ms are the ones
\* the rule gives (a speech frame sets speech_detected and resets the silence
\* run to 0, a non-speech frame after speech adds one frame duration), the
\* utterance ends at the first frame where (silence run >= SILENCE_THRESHOLD_MS
\* and elapsed >= MIN_SPEECH_DURATION_S) or elapsed >= MAX_RECORDING_S, at no
\* earlier frame, and never on non-speech frames before any speech.
C7_SegmentationRule ==
    /\ utt.pc = "none" =>
          /\ seg.speech_detected = (SpeechAt(hseg.window) # {})
          /\ seg.silence_ms = RuleSilence(hseg.window)
          /\ \A k \in 1..Len(hseg.window) : ~RuleFires(Prefix(hseg.window, k), cfg)
    /\ hseg.fired =>
          /\ RuleFires(hseg.fired_window, cfg)
          /\ hseg.fired_silence = RuleSilence(hseg.fired_window)
          /\ \A k \in 1..(Len(hseg.fired_window) - 1) :
                ~RuleFires(Prefix(hseg.fired_window, k), cfg)

\* An utterance that began after leading non-speech frames has ended on its
\* silence run, below the cap, at a frame later than the one where the
\* silence run reached the threshold: MIN_SPEECH_DURATION_S held it back.
C7_Witness ==
    /\ hseg.fired
    /\ ~hseg.fired_window[1].speech
    /\ hseg.fired_elapsed < cfg.max_recording
    /\ hseg.fired_silence > cfg.silence_threshold + VAD_FRAME_MS

\* C8 as the specification states it: with 30 ms frames, a threshold of
\* 2500 ms and a minimum of 0.5 s, 40 speech frames followed by 90 silence
\* frames end the utterance at frame 83 of the silence phase.
C8_EndsAtSilenceFrame83 ==
    /\ hseg.fired => Len(hseg.fired_window) = SpeechFrames + 83
    /\ stream.seen >= SpeechFrames + 83 => hseg.fired

\* C8, amended: the utterance ends at the 84th silence frame, the first one
\* at which the silence run (2520 ms) is at least 2500 ms, and at no frame
\* before it; after 83 silence frames the run is 2490 ms.
C8_EndsAtSilenceFrame84 ==
    /\ hseg.fired => /\ Len(hseg.fired_window) = SpeechFrames + 84
                     /\ hseg.fired_silence = 84 * VAD_FRAME_MS
                     /\ hseg.fired_silence - VAD_FRAME_MS < SILENCE_THRESHOLD_MS
    /\ stream.seen >= SpeechFrames + 84 => hseg.fired

\* The utterance of the scenario has ended.
C8_Witness == hseg.fired /\ stream.seen = SpeechFrames + 84

(***************************************************************************)
(* Claims about the noise filter and the utterance handler.                *)
(***************************************************************************)
\* C9: noise filtering is idempotent: for every transcript t,
\* strip_noise(strip_noise(t)) = strip_noise(t), also when removing one
\* artifact brings together pieces that form a new artifact.
C9_Idempotent == noise_n = 2 => noise_out[2] = noise_out[1]

\* C10: the order strip, empty check, command check, forward is kept for
\* every utterance: a text forwarded to the assistant session is the
\* noise-stripped transcript, has at least 2 characters and is no voice
\* command; a noise-only or command transcript is not forwarded and does not
\* set waiting_for_response.
C10_ForwardOnlyCleanSpeech ==
    hutt.n > 0 =>
        LET text == strip_noise(Strip(hutt.raw))
            noise == CharLen(text) < 2
            command == match_voice_command(text) # None
        IN  /\ hutt.sent # <<>> => /\ hutt.sent[1] = text
                                   /\ ~noise
                                   /\ ~command
            /\ (noise \/ command) => /\ hutt.sent = <<>>
                                     /\ ~hutt.set_waiting

\* A transcript with an artifact in it has been forwarded without it.
C10_Witness ==
    /\ hutt.sent # <<>>
    /\ hutt.sent[1] # Strip(hutt.raw)
    /\ room.waiting_for_response

(***************************************************************************)
(* C11: when the transcription of an utterance fails and the session is    *)
(* registered, the handler leaves the status at error with the recovery    *)
(* timer scheduled, forwards nothing and does not leave the status at      *)
(* thinking.                                                               *)
(***************************************************************************)
C11_TranscriptionFailureIsError ==
    (hutt.failed /\ utt.pc = "return" /\ utt.ws # 0) =>
        /\ room.current_state = "error"
        /\ room.error_timer # NoTime
        /\ hutt.sent = <<>>
        /\ ~room.waiting_for_response

(***************************************************************************)
(* C12: when the synthesis of a reply fails before any audio and no reply  *)
(* is queued behind it, the status is error with the recovery timer armed  *)
(* once the playback handler of that reply has finished.                   *)
(***************************************************************************)
C12_SynthesisFailureIsError ==
    [][\A id \in 1..MaxReplies :
          (ErrorReturn(id) /\ room.response_queue = <<>>) =>
              /\ room'.current_state = "error"
              /\ room'.error_timer # NoTime]_vars

(***************************************************************************)
(* SpecRecovery: synthesis and transcription failures with the recovery    *)
(* timer, under the scheduling of the event loop: a handler whose await    *)
(* has completed is resumed, time passes, a timer that is due runs.        *)
(***************************************************************************)
\* asyncio.sleep(ERROR_RECOVERY_S) of the live timer runs out.
SleepElapses ==
    /\ room.error_timer # NoTime
    /\ clock < room.error_timer
    /\ clock' = room.error_timer
    /\ UNCHANGED <<cfg, stream, room, playing, seg, utt, hplay, hrace, hdone, hseg, hutt>>
    /\ regUnchanged

\* A word and a pause: one utterance.
RecoveryScript == <<TRUE, FALSE>>

RecoveryInit ==
    /\ RegisteredInit
    /\ RoomState(RoomStarted)
    /\ cfg = QuickConfig
    /\ stream = Stream(Len(RecoveryScript), RecoveryScript, 0)
    /\ NoiseIdle

RecoveryNext ==
    \/ Reply
    \/ TextMessage
    \/ WorkerGet
    \/ \E id \in 1..MaxReplies : SynthOk(id)
    \/ \E id \in 1..MaxReplies : SynthFails(id)
    \/ \E id \in 1..MaxReplies : ErrorReturn(id)
    \/ \E id \in 1..MaxReplies : SleepDone(id)
    \/ \E b \in BOOLEAN : ProcessFrame(b)
    \/ TranscribeRaises
    \/ SttErrorReturn
    \/ UtteranceReturn
    \/ TimerFires
    \/ SleepElapses

RecoveryFairness ==
    /\ \A id \in 1..MaxReplies : WF_vars(ErrorReturn(id))
    /\ WF_vars(SttErrorReturn)
    /\ WF_vars(SleepElapses)
    /\ WF_vars(TimerFires)

SpecRecovery == RecoveryInit /\ [][RecoveryNext]_vars /\ RecoveryFairness

(***************************************************************************)
(* C13: a status of error is followed, once the recovery delay is over, by *)
(* idle with waiting_for_response cleared; the room keeps running, so its  *)
(* worker and its audio loop go on.                                        *)
(***************************************************************************)
C13_ErrorRecovers ==
    /\ (room.current_state = "error") ~>
           (room.current_state = "idle" /\ ~room.waiting_for_response)
    /\ []room.running

\* The recovery timer of a failure has run ERROR_RECOVERY_S and set idle.
C13_Witness ==
    /\ room.current_state = "idle"
    /\ ~room.waiting_for_response
    /\ room.error_timer = NoTime
    /\ clock >= ClockStart + ERROR_RECOVERY_MS
    /\ room.running

(***************************************************************************)
(* C14: register returns is_reconnect = true exactly when the registry     *)
(* holds a record of the session id when the call enters register, so the  *)
(* second of two registrations of an id with no unregister or eviction in  *)
(* between returns true.                                                   *)
(***************************************************************************)
C14_ReconnectIffRecord ==
    [][\A c \in Conns, sid \in SessionIds :
          RecvRegister(c, sid) =>
              conn_reconnect'[c] = (sid \in DOMAIN sessions)]_vars

\* A first registration returned false and a second registration of the same
\* id returned true.
C14_Witness ==
    \E c, d \in Conns, sid \in SessionIds :
        /\ c # d
        /\ conn_sid[c] = sid /\ ~conn_reconnect[c] /\ conn_pc[c] \notin {"init", "reg_close"}
        /\ conn_sid[d] = sid /\ conn_reconnect[d] /\ conn_pc[d] = "reg_sent"
        /\ <<sid, c, d>> \in replaced

(***************************************************************************)
(* C15: re-registering an id keeps its viewer set: from the call of        *)
(* register to its return the session map changes only by the store, and   *)
(* the stored record has the viewers of the old one, the new transport and *)
(* created_at = last_heartbeat = the time of the store, so it is not       *)
(* stale.                                                                  *)
(***************************************************************************)
C15_ReRegisterKeepsViewers ==
    [][\A c \in Conns :
          /\ (\E sid \in SessionIds : RecvRegister(c, sid) /\ sid \in DOMAIN sessions)
                => sessions' = sessions
          /\ conn_pc[c] = "reg_close" =>
                IF RegisterStore(c)
                THEN LET sid == conn_sid[c] IN
                     /\ sessions'[sid].connected_clients = sessions[sid].connected_clients
                     /\ sessions'[sid].ws = c
                     /\ sessions'[sid].created_at = now
                     /\ sessions'[sid].last_heartbeat = now
                     /\ ~is_stale(sessions'[sid], now')
                     /\ DOMAIN sessions' = DOMAIN sessions
                ELSE sessions' = sessions]_vars

\* An id with a viewer attached has been re-registered over a new transport.
C15_Witness ==
    \E r \in replaced :
        /\ r[2] # r[3]
        /\ r[1] \in DOMAIN sessions
        /\ sessions[r[1]].ws = r[3]
        /\ sessions[r[1]].connected_clients # {}
        /\ sessions[r[1]].created_at = now
        /\ now > 0
        /\ conn_pc[r[3]] = "reg_sent"

(***************************************************************************)
(* C16: one room per live session: at every quiescent point the ids that   *)
(* have a room are the ids the registry holds.                             *)
(***************************************************************************)
C16_RoomIffRegistered == Quiescent => rooms = DOMAIN sessions

(***************************************************************************)
(* C17: list_sessions evicts every session whose heartbeat age exceeds     *)
(* SESSION_TIMEOUT and returns exactly the remainder: no such session is   *)
(* in the result or in the registry afterwards, and every other session    *)
(* is in both, unchanged.                                                  *)
(***************************************************************************)
C17_ListEvictsExactlyStale ==
    [][(ListSessions \/ \E c \in Conns : RegBroadcast(c)) =>
          /\ list_sessions(sessions, now) = DOMAIN sessions'
          /\ \A sid \in DOMAIN sessions :
                IF now - sessions[sid].last_heartbeat > SESSION_TIMEOUT
                THEN /\ sid \notin DOMAIN sessions'
                     /\ sid \notin list_sessions(sessions, now)
                ELSE /\ sid \in DOMAIN sessions'
                     /\ sessions'[sid] = sessions[sid]
                     /\ sid \in list_sessions(sessions, now)]_vars

\* Two ids registered at the same time, no handler has ended: one stopped
\* its heartbeats and has been evicted by a list, the other is still there.
C17_Witness ==
    /\ \A c \in Conns : conn_pc[c] = "recv"
    /\ \E a, b \in SessionIds :
          /\ a # b
          /\ reg_last[a] # 0 /\ reg_last[b] # 0
          /\ reg_at[a] = reg_at[b]
          /\ now - reg_at[a] > SESSION_TIMEOUT
          /\ a \notin DOMAIN sessions
          /\ b \in DOMAIN sessions
          /\ now - sessions[b].last_heartbeat <= SESSION_TIMEOUT

(***************************************************************************)
(* C18: a session leaves the registry only by unregister or by a list at   *)
(* a moment when its heartbeat age exceeds SESSION_TIMEOUT: whatever the   *)
(* interleaving of heartbeats, registrations and lists, no step removes a  *)
(* session whose last heartbeat is at most SESSION_TIMEOUT old unless the  *)
(* step is the unregister of that session.                                 *)
(***************************************************************************)
C18_EvictedOnlyWhenStale ==
    [][\A sid \in DOMAIN sessions :
          sid \notin DOMAIN sessions' =>
              \/ now - sessions[sid].last_heartbeat > SESSION_TIMEOUT
              \/ \E c \in Conns : FinUnregister(c) /\ CleanupTarget(c) = sid]_vars

\* A session registered longer ago than SESSION_TIMEOUT that sent a heartbeat
\* since is in the registry with an age of exactly SESSION_TIMEOUT, after a
\* list has evicted the session registered with it.
C18_Witness ==
    /\ \A c \in Conns : conn_pc[c] = "recv"
    /\ \E a, b \in SessionIds :
          /\ a # b
          /\ reg_last[a] # 0 /\ reg_last[b] # 0
          /\ reg_at[a] = reg_at[b]
          /\ a \notin DOMAIN sessions
          /\ b \in DOMAIN sessions
          /\ sessions[b].last_heartbeat > sessions[b].created_at
          /\ now - sessions[b].last_heartbeat = SESSION_TIMEOUT

(***************************************************************************)
(* C19: the registry's mutations exclude each other: the lock is held      *)
(* exactly while one register is suspended closing the old transport, by   *)
(* that register alone, and then no other operation changes the session    *)
(* map; every other mutation begins and ends with the lock free.           *)
(***************************************************************************)
C19_MutationsExclusive ==
    /\ [](/\ \A c \in Conns : conn_pc[c] = "reg_close" <=> lock = c
          /\ lock \in {0} \cup Conns)
    /\ [][/\ lock # 0 =>
               \/ sessions' = sessions /\ lock' = lock
               \/ RegisterStore(lock)
          /\ (lock = 0 /\ sessions' # sessions) => lock' = 0]_vars

\* A register is suspended in the close of the old transport, holding the
\* lock, while a heartbeat and a list wait on open connections.
C19_Witness ==
    \E c, d \in Conns :
        /\ c # d
        /\ lock = c
        /\ conn_pc[c] = "reg_close"
        /\ conn_pc[d] = "recv" /\ ws_state[d] = "open"
        /\ conn_sid[d] \in DOMAIN sessions

(***************************************************************************)
(* C20: a heartbeat for an id the registry does not hold changes nothing   *)
(* and never creates a record; a heartbeat for an id it holds changes only *)
(* that record's last_heartbeat; an unregister of an id it does not hold   *)
(* removes nothing but what the list that follows it evicts as stale.      *)
(***************************************************************************)
C20_AbsentIdIsNoOp ==
    [][/\ \A c \in Conns, sid \in SessionIds :
             RecvHeartbeat(c, sid) =>
                 IF sid \in DOMAIN sessions
                 THEN sessions' = [sessions EXCEPT ![sid].last_heartbeat = now]
                 ELSE sessions' = sessions
       /\ \A c \in Conns :
             (FinUnregister(c) /\ CleanupTarget(c) \notin DOMAIN sessions) =>
                 /\ DOMAIN sessions' \subseteq DOMAIN sessions
                 /\ \A x \in DOMAIN sessions :
                       IF x \in DOMAIN sessions'
                       THEN sessions'[x] = sessions[x]
                       ELSE now - sessions[x].last_heartbeat > SESSION_TIMEOUT]_vars

\* The session of a connection has been unregistered by another handler's
\* finally block; the connection is open and may still send its heartbeat.
C20_Witness ==
    \E c, d \in Conns :
        /\ c # d
        /\ conn_pc[d] = "done"
        /\ conn_pc[c] = "recv" /\ ws_state[c] = "open"
        /\ conn_sid[c] \in SessionIds
        /\ conn_sid[c] = conn_sid[d]
        /\ reg_last[conn_sid[c]] = c
        /\ conn_sid[c] \notin DOMAIN sessions
        /\ now - reg_at[conn_sid[c]] <= SESSION_TIMEOUT

(***************************************************************************)
(* SpecViewers: two viewers attach to and detach from two sessions that    *)
(* register, re-register and go away.                                      *)
(***************************************************************************)
ViewersNext ==
    \/ \E c \in Conns : Accept(c)
    \/ \E c \in Conns : PeerClose(c)
    \/ \E c \in Conns, sid \in SessionIds : RecvRegister(c, sid)
    \/ \E c \in Conns : RegisterStore(c)
    \/ \E c \in Conns : RegRecycle(c)
    \/ \E c \in Conns : RegAdd(c)
    \/ \E c \in Conns : RegBroadcast(c)
    \/ \E c \in Conns : RecvClosed(c)
    \/ \E c \in Conns : Fin(c)
    \/ \E c \in Conns : FinUnregister(c)
    \/ \E sid \in SessionIds, v \in ViewerIds : ConnectClient(sid, v)
    \/ \E sid \in SessionIds, v \in ViewerIds : DisconnectClient(sid, v)
    \/ \E sid \in SessionIds : DisconnectAll(sid)

SpecViewers == Init /\ [][ViewersNext]_vars

(***************************************************************************)
(* C21: connect_client adds the viewer to the session's viewer set and     *)
(* returns true when the session has a record, and returns false and       *)
(* changes nothing when it has none; disconnect_client removes that viewer *)
(* from that session, or with client_id None every viewer of that session, *)
(* and changes nothing else.  So the viewer set is the viewers attached    *)
(* and not since detached.                                                 *)
(***************************************************************************)
C21_ViewerSetExact ==
    [][\A sid \in SessionIds :
          LET present == sid \in DOMAIN sessions
              Viewing(vs) == [sessions EXCEPT ![sid].connected_clients = vs]
          IN  /\ \A v \in ViewerIds :
                    /\ ConnectClient(sid, v) =>
                          /\ connect_client_found(sessions, sid) = present
                          /\ sessions' = IF present
                                         THEN Viewing(sessions[sid].connected_clients \cup {v})
                                         ELSE sessions
                    /\ DisconnectClient(sid, v) =>
                          sessions' = IF present
                                      THEN Viewing(sessions[sid].connected_clients \ {v})
                                      ELSE sessions
              /\ DisconnectAll(sid) =>
                    sessions' = IF present THEN Viewing({}) ELSE sessions]_vars

\* Both viewers are attached to one session and one of them to the other.
C21_Witness ==
    \E a, b \in SessionIds :
        /\ a # b
        /\ a \in DOMAIN sessions /\ b \in DOMAIN sessions
        /\ sessions[a].connected_clients = ViewerIds
        /\ Cardinality(sessions[b].connected_clients) = 1

(***************************************************************************)
(* RelayAgent, livekit_agent.py:614-681: the rooms of all sessions.  An    *)
(* entry of agent_rooms is a SessionRoom: its fields (room), the number    *)
(* of the instance (inst), where its start() is (pc), how many response    *)
(* workers were created for it (workers), the playback its worker is in    *)
(* (play), and how many replies were routed to it (submitted).             *)
(***************************************************************************)
\* Instances created over a run.
MaxInstances == 2
\* Replies routed to one instance.
AgentReplies == 1
\* Recovery delays that pass over a run.
AgentSleeps == 1
\* The activity labels sent to the agent's rooms.
AgentActivities == {"Reading files"}

NoRoom == [inst |-> 0]
NoPlay == [pc |-> "none", tts_started_at |-> NoTime]

\* SessionRoom(...) followed by the first line of start(),
\* livekit_agent.py:628-636 and 200.
NewRoom(n) ==
    [inst |-> n, pc |-> "connect", workers |-> 0, play |-> NoPlay,
     submitted |-> 0, room |-> RoomStarted]

\* A lookup that makes up a room for an id that has none.
GetRoomDefault(m, sid) == IF sid \in DOMAIN m THEN m[sid] ELSE NewRoom(0)

\* self._rooms.get(session_id), livekit_agent.py:648-669.
get_room(m, sid) == IF sid \in DOMAIN m THEN m[sid] ELSE NoRoom

\* Fields that belong to the class, not to the instance: every room sees a
\* write made through any of them.
SetOnClass(m, sid, entry) == [x \in DOMAIN m \cup {sid} |-> entry]

\* The fields of a SessionRoom are attributes of the instance,
\* livekit_agent.py:164-196: a handler writes the room it was called on.
SetOnSelf(m, sid, entry) == Put(m, sid, entry)

\* An add_session that replaces the room of an id that has one.
AddSessionAgain(m, sid, n) == Put(m, sid, NewRoom(n))

\* RelayAgent.add_session, livekit_agent.py:624-636, up to the await in start().
RelayAgent_add_session(m, sid, n) ==
    IF sid \in DOMAIN m THEN m ELSE Put(m, sid, NewRoom(n))

\* RelayAgent.remove_session, livekit_agent.py:640-645: the room is popped and
\* stopped; its worker, audio tasks and error timer are cancelled.
RelayAgent_remove_session(m, sid) == Pop(m, sid)

agentUnchanged ==
    UNCHANGED <<regVars, noiseVars, cfg, stream, room, playing, seg, utt,
                hplay, hrace, hdone, hseg, hutt, taskVars>>

\* A handler of the agent that finds the room of sid, or does nothing.
Routed(sid, r, entry) ==
    /\ agent_rooms' = IF r = NoRoom THEN agent_rooms
                      ELSE SetOnSelf(agent_rooms, sid, entry)
    /\ UNCHANGED <<clock, agent_made>>
    /\ agentUnchanged

\* server.py:989-999 and 1086-1093 call add_session and remove_session.
AgentAdd(sid) ==
    /\ agent_made < MaxInstances
    /\ agent_rooms' = RelayAgent_add_session(agent_rooms, sid, agent_made + 1)
    /\ agent_made' = IF agent_rooms' = agent_rooms THEN agent_made ELSE agent_made + 1
    /\ UNCHANGED clock
    /\ agentUnchanged

AgentRemove(sid) ==
    /\ agent_rooms' = RelayAgent_remove_session(agent_rooms, sid)
    /\ UNCHANGED <<clock, agent_made>>
    /\ agentUnchanged

\* start() resumes after room.connect and publish_track,
\* livekit_agent.py:232-247: the response worker is created.
AgentStarted(sid) ==
    /\ sid \in DOMAIN agent_rooms
    /\ agent_rooms[sid].pc = "connect"
    /\ LET r == agent_rooms[sid]
       IN  Routed(sid, r, [r EXCEPT !.pc = "up", !.workers = @ + 1])

\* room.connect raises, livekit_agent.py:233-236.
AgentConnectFails(sid) ==
    /\ sid \in DOMAIN agent_rooms
    /\ agent_rooms[sid].pc = "connect"
    /\ LET r == agent_rooms[sid]
       IN  Routed(sid, r, [r EXCEPT !.pc = "failed", !.room.running = FALSE])

\* RelayAgent.handle_claude_response, livekit_agent.py:651-654 and 459-461.
AgentReply(sid) ==
    LET r == get_room(agent_rooms, sid)
    IN  /\ IF r = NoRoom THEN TRUE ELSE r.submitted < AgentReplies
        /\ Routed(sid, r,
                  [r EXCEPT !.submitted = @ + 1,
                            !.room.response_queue = put_nowait(@, r.submitted + 1)])

\* RelayAgent.handle_claude_listening, livekit_agent.py:656-659.
AgentListening(sid) ==
    LET r == get_room(agent_rooms, sid)
    IN  /\ sid \in SessionIds
        /\ Routed(sid, r, [r EXCEPT !.room = handle_claude_listening(@, clock)])

\* RelayAgent.handle_status_update, livekit_agent.py:667-670.
AgentStatusUpdate(sid, activity) ==
    LET r == get_room(agent_rooms, sid)
    IN  /\ activity \in AgentActivities
        /\ Routed(sid, r, [r EXCEPT !.room = handle_status_update(@, activity, clock)])

\* RelayAgent.handle_text_message, livekit_agent.py:661-665.
AgentTextMessage(sid) ==
    LET r == get_room(agent_rooms, sid)
    IN  /\ sid \in SessionIds
        /\ Routed(sid, r, [r EXCEPT !.room = handle_text_message(@, clock)])

\* The worker of the room, livekit_agent.py:463-480.
AgentTake(r) ==
    LET q == QueueTake(r.room.response_queue)
    IN  [r EXCEPT !.room = BeginPlayback(@, q, clock),
                  !.play = [pc |-> "synth", tts_started_at |-> clock]]

AgentWorkerGet(sid) ==
    /\ sid \in DOMAIN agent_rooms
    /\ LET r == agent_rooms[sid]
       IN  /\ r.workers > 0
           /\ r.room.running
           /\ r.room.response_queue # <<>>
           /\ r.play = NoPlay
           /\ Routed(sid, r, AgentTake(r))

\* The finally block of the playback and, with replies queued, the worker's
\* next get, livekit_agent.py:510-532 and 465-468.
AgentFinish(r, before) ==
    LET r1 == [r EXCEPT !.room = AfterPlayback(before, r.play.tts_started_at, clock),
                        !.play = NoPlay]
    IN  IF r1.room.response_queue # <<>> /\ r1.room.running THEN AgentTake(r1) ELSE r1

\* The synthesis fails before any audio, livekit_agent.py:490-499.
AgentSynthFails(sid) ==
    /\ sid \in DOMAIN agent_rooms
    /\ agent_rooms[sid].play.pc = "synth"
    /\ LET r == agent_rooms[sid]
       IN  Routed(sid, r,
                  [r EXCEPT !.room = NotifyStatus(@, "error", "Text-to-speech failed", clock),
                            !.play.pc = "error"])

\* livekit_agent.py:494-495 and 500-501, then the finally block.
AgentErrorReturn(sid) ==
    /\ sid \in DOMAIN agent_rooms
    /\ agent_rooms[sid].play.pc = "error"
    /\ LET r == agent_rooms[sid]
       IN  Routed(sid, r, AgentFinish(r, schedule_error_recovery(r.room, clock)))

\* The audio was published and the sleep is over, livekit_agent.py:487-508,
\* then the finally block.
AgentPlayed(sid) ==
    /\ sid \in DOMAIN agent_rooms
    /\ agent_rooms[sid].play.pc = "synth"
    /\ LET r == agent_rooms[sid]
       IN  Routed(sid, r, AgentFinish(r, r.room))

\* An utterance of the room's participant: frames are admitted up to the end
\* of the utterance, livekit_agent.py:311-350, _handle_utterance forwards the
\* transcript, livekit_agent.py:446-454, and the audio loop empties the
\* buffer, livekit_agent.py:360.  Taken as one step: at each of its awaits
\* only fields of this room have changed (SpecUtterance has the steps).
AgentUtterance(sid) ==
    /\ sid \in DOMAIN agent_rooms
    /\ LET r == agent_rooms[sid]
       IN  /\ r.pc = "up"
           /\ r.room.running
           /\ ~Suppressed(r.room, clock)
           /\ Routed(sid, r,
                     [r EXCEPT !.room = NotifyStatus(
                                   [@ EXCEPT !.waiting_for_response = TRUE,
                                             !.audio_buffer = 0],
                                   "thinking", "Waiting for Claude...", clock)])

\* _recover_from_error of the room, livekit_agent.py:602-611.
AgentTimerFires(sid) ==
    /\ sid \in DOMAIN agent_rooms
    /\ LET r == agent_rooms[sid]
       IN  /\ r.room.error_timer # NoTime
           /\ clock >= r.room.error_timer
           /\ Routed(sid, r,
                     [r EXCEPT !.room = NotifyStatus(
                                   [@ EXCEPT !.waiting_for_response = FALSE,
                                             !.error_timer = NoTime],
                                   "idle", None, clock)])

\* The sleep of a room's recovery timer runs out.
AgentSleepElapses(sid) ==
    /\ sid \in DOMAIN agent_rooms
    /\ agent_rooms[sid].room.error_timer # NoTime
    /\ clock < agent_rooms[sid].room.error_timer
    /\ clock < ClockStart + AgentSleeps * ERROR_RECOVERY_MS
    /\ clock' = agent_rooms[sid].room.error_timer
    /\ UNCHANGED agentVars
    /\ agentUnchanged

\* Every step taken for session sid.
AgentStep(sid) ==
    \/ AgentAdd(sid)
    \/ AgentRemove(sid)
    \/ AgentStarted(sid)
    \/ AgentConnectFails(sid)
    \/ AgentReply(sid)
    \/ AgentListening(sid)
    \/ \E a \in AgentActivities : AgentStatusUpdate(sid, a)
    \/ AgentTextMessage(sid)
    \/ AgentWorkerGet(sid)
    \/ AgentSynthFails(sid)
    \/ AgentErrorReturn(sid)
    \/ AgentPlayed(sid)
    \/ AgentUtterance(sid)
    \/ AgentTimerFires(sid)

AgentNext ==
    \/ \E sid \in SessionIds : AgentAdd(sid)
    \/ \E sid \in SessionIds : AgentRemove(sid)
    \/ \E sid \in SessionIds : AgentStarted(sid)
    \/ \E sid \in SessionIds : AgentConnectFails(sid)
    \/ \E sid \in SessionIds : AgentReply(sid)
    \/ \E sid \in SessionIds : AgentListening(sid)
    \/ \E sid \in SessionIds, a \in AgentActivities : AgentStatusUpdate(sid, a)
    \/ \E sid \in SessionIds : AgentTextMessage(sid)
    \/ \E sid \in SessionIds : AgentWorkerGet(sid)
    \/ \E sid \in SessionIds : AgentSynthFails(sid)
    \/ \E sid \in SessionIds : AgentErrorReturn(sid)
    \/ \E sid \in SessionIds : AgentPlayed(sid)
    \/ \E sid \in SessionIds : AgentUtterance(sid)
    \/ \E sid \in SessionIds : AgentTimerFires(sid)
    \/ \E sid \in SessionIds : AgentSleepElapses(sid)

SpecAgent == Init /\ [][AgentNext]_vars

(***************************************************************************)
(* C22: add_session for an id that has a room changes nothing: the room,   *)
(* its state and its worker are kept and no instance is created; for an    *)
(* id without a room it stores one new instance.  remove_session removes   *)
(* the room of that id and no other, and for an id without a room changes  *)
(* nothing.  No room ever has more than one response worker.               *)
(***************************************************************************)
C22_AddRemoveIdempotent ==
    /\ [][\A sid \in SessionIds :
             LET others == DOMAIN agent_rooms \ {sid}
                 OthersKept == \A x \in others :
                                  x \in DOMAIN agent_rooms' /\ agent_rooms'[x] = agent_rooms[x]
             IN  /\ AgentAdd(sid) =>
                       IF sid \in DOMAIN agent_rooms
                       THEN agent_rooms' = agent_rooms /\ agent_made' = agent_made
                       ELSE /\ DOMAIN agent_rooms' = DOMAIN agent_rooms \cup {sid}
                            /\ agent_rooms'[sid].inst = agent_made + 1
                            /\ agent_rooms'[sid].workers = 0
                            /\ agent_made' = agent_made + 1
                            /\ OthersKept
                 /\ AgentRemove(sid) =>
                       /\ DOMAIN agent_rooms' = others
                       /\ OthersKept
                       /\ agent_made' = agent_made]_vars
    /\ [](\A sid \in DOMAIN agent_rooms : agent_rooms[sid].workers <= 1)

\* The only room is the second instance of the agent: an id was added,
\* removed and added again, or the other id's room was removed; the room is
\* up with its worker in a playback.
C22_Witness ==
    \E sid \in SessionIds :
        /\ DOMAIN agent_rooms = {sid}
        /\ agent_rooms[sid].inst = 2
        /\ agent_rooms[sid].pc = "up"
        /\ agent_rooms[sid].workers = 1
        /\ agent_rooms[sid].play.pc = "synth"
        /\ agent_rooms[sid].room.current_state = "speaking"

(***************************************************************************)
(* C23: a reply, a "listening", an activity update or a text message       *)
(* routed to an id that has no room changes nothing: no room is created    *)
(* and no room's state changes.                                            *)
(***************************************************************************)
C23_MissIsIgnored ==
    [][\A sid \in SessionIds :
          (/\ sid \notin DOMAIN agent_rooms
           /\ \/ AgentReply(sid)
              \/ AgentListening(sid)
              \/ \E a \in AgentActivities : AgentStatusUpdate(sid, a)
              \/ AgentTextMessage(sid))
          => /\ agent_rooms' = agent_rooms
             /\ agent_made' = agent_made]_vars

\* The room of one id has been removed while the room of the other id, the
\* first instance, is waiting for a reply.
C23_Witness ==
    \E a \in SessionIds :
        /\ DOMAIN agent_rooms = {a}
        /\ agent_made = 2
        /\ agent_rooms[a].inst = 1
        /\ agent_rooms[a].room.waiting_for_response
        /\ agent_rooms[a].room.current_state = "thinking"

(***************************************************************************)
(* C24: the rooms are independent: a step taken for one session (add,      *)
(* remove, start, reply, listening, activity, text message, playback,      *)
(* utterance, error recovery) leaves the room of every other session       *)
(* as it was, present or absent.                                           *)
(***************************************************************************)
C24_RoomsIndependent ==
    [][\A a \in SessionIds :
          AgentStep(a) =>
              \A b \in SessionIds \ {a} :
                  /\ b \in DOMAIN agent_rooms' <=> b \in DOMAIN agent_rooms
                  /\ b \in DOMAIN agent_rooms => agent_rooms'[b] = agent_rooms[b]]_vars

\* Two rooms in different states: one is in a playback, the other has had a
\* failed playback and its recovery timer is armed.
C24_Witness ==
    \E a, b \in SessionIds :
        /\ a # b
        /\ a \in DOMAIN agent_rooms /\ b \in DOMAIN agent_rooms
        /\ agent_rooms[a].room.is_speaking
        /\ agent_rooms[a].room.error_timer = NoTime
        /\ ~agent_rooms[b].room.is_speaking
        /\ agent_rooms[b].room.error_timer # NoTime
        /\ agent_rooms[b].room.waiting_for_response

(***************************************************************************)
(* C25: the raw transcript "[music] you" is cleaned to "you", and the      *)
(* handler of that utterance does not forward it to the session.           *)
(***************************************************************************)
C25_MusicYouNotForwarded ==
    (hutt.n > 0 /\ hutt.raw = <<"[", "music", "]", " ", "you">>) =>
        /\ Cleaned(hutt.raw) = <<"you">>
        /\ hutt.sent = <<>>
        /\ ~hutt.set_waiting

(***************************************************************************)
(* C26: when a playback ends (after its audio or after a failed            *)
(* synthesis) with the queue empty and a pending "listening" recorded at   *)
(* or after the last activity update, the pending signal is cleared,       *)
(* waiting_for_response and the activity are cleared and the status is     *)
(* idle.                                                                   *)
(***************************************************************************)
C26_PendingListenGoesIdle ==
    [][\A id \in 1..MaxReplies :
          (/\ SleepDone(id) \/ ErrorReturn(id)
           /\ room.response_queue = <<>>
           /\ room.pending_listening
           /\ room.pending_listening_at >= room.last_status_update_at)
          => /\ ~room'.pending_listening
             /\ ~room'.waiting_for_response
             /\ room'.current_activity = None
             /\ room'.current_state = "idle"
             /\ ~room'.is_speaking]_vars

\* The last playback has ended; while it was playing an activity update and
\* then a "listening" arrived at the same reading of the clock.
C26_Witness ==
    /\ hplay.completed # <<>>
    /\ playing = [x \in {} |-> 0]
    /\ hrace.listened
    /\ hrace.last = "listening"
    /\ room.last_status_update_at = room.pending_listening_at
    /\ room.current_state = "idle"
    /\ ~room.pending_listening
    /\ ~room.waiting_for_response
    /\ room.idle_entered_at = room.speaking_ended_at

(***************************************************************************)
(* C27: on a "listening" of the session: when the room is speaking or its  *)
(* queue is not empty, the pending signal and its time are recorded and    *)
(* nothing else of the room changes (status, waiting_for_response and      *)
(* activity stay); otherwise waiting_for_response and the activity are     *)
(* cleared and the status is idle in the same step.                        *)
(***************************************************************************)
C27_ListeningDefersWhilePlaying ==
    [][Listening =>
          IF room.is_speaking \/ room.response_queue # <<>>
          THEN room' = [room EXCEPT !.pending_listening = TRUE,
                                    !.pending_listening_at = clock]
          ELSE /\ ~room'.waiting_for_response
               /\ room'.current_activity = None
               /\ room'.current_state = "idle"
               /\ room'.idle_entered_at = clock
               /\ room'.pending_listening = room.pending_listening]_vars

\* A "listening" was recorded while a reply is queued and no playback has
\* begun: the status is still thinking and the room still waits.
C27_Witness ==
    /\ ~room.is_speaking
    /\ room.response_queue # <<>>
    /\ room.pending_listening
    /\ room.pending_listening_at = clock
    /\ room.waiting_for_response
    /\ room.current_state = "thinking"

(***************************************************************************)
(* C28: the status does not become idle too early.  On every step that     *)
(* begins and ends with a reply being played or replies in the queue, the  *)
(* status does not change to idle and waiting_for_response is not          *)
(* cleared: a "listening" is only recorded as pending, and a recovery      *)
(* timer armed by an earlier failure does not fire into the playback of a  *)
(* later reply.                                                            *)
(***************************************************************************)
C28_NoEarlyIdle ==
    [][(/\ room.is_speaking \/ room.response_queue # <<>>
        /\ room'.is_speaking \/ room'.response_queue # <<>>)
       => /\ room'.current_state = "idle" => room.current_state = "idle"
          /\ room.waiting_for_response => room'.waiting_for_response]_vars

(***************************************************************************)
(* C29: when a reply finishes playing with the queue empty, no pending     *)
(* "listening" and no activity update since the playback started, the      *)
(* status is thinking with the activity "Waiting for Claude..." and a      *)
(* timer of the room is armed that will take it to idle.  The only timer   *)
(* a room has is _error_timer.                                             *)
(***************************************************************************)
C29_FinishArmsDeferredIdle ==
    [][\A id \in 1..MaxReplies :
          (/\ SleepDone(id)
           /\ room.response_queue = <<>>
           /\ ~room.pending_listening
           /\ room.last_status_update_at <= playing[id].tts_started_at)
          => /\ room'.current_state = "thinking"
             /\ room'.current_activity = "Waiting for Claude..."
             /\ room'.error_timer # NoTime]_vars

(***************************************************************************)
(* SpecListen: the room of SpecRoom under the scheduling of the event      *)
(* loop.  The worker blocked in queue.get() is resumed when the queue has  *)
(* a reply, livekit_agent.py:465-468; the synthesis request ends, with     *)
(* audio or with a failure, within its timeout, audio.py:121; a handler    *)
(* whose notification await has completed is resumed; the sleep for the    *)
(* rest of the audio is finite, livekit_agent.py:504-508.                  *)
(***************************************************************************)
ListenFairness ==
    /\ WF_vars(WorkerGet)
    /\ \A id \in 1..MaxReplies :
          /\ WF_vars(SynthOk(id) \/ SynthFails(id))
          /\ WF_vars(ErrorReturn(id))
          /\ WF_vars(SleepDone(id))

SpecListen == RoomInit /\ [][RoomNext]_vars /\ ListenFairness

\* The room is idle and nothing of the turn is left.
Settled ==
    /\ room.current_state = "idle"
    /\ ~room.waiting_for_response
    /\ ~room.pending_listening

(***************************************************************************)
(* C30: the room does not stay in thinking.  When a "listening" arrives    *)
(* after the last reply was submitted and from then on no reply, activity  *)
(* update or text message arrives, then, whether the "listening" arrived   *)
(* before the playback began, during it or after it, the room eventually   *)
(* is idle with waiting_for_response false and no pending "listening",     *)
(* and stays so.                                                           *)
(***************************************************************************)
C30_ListeningLeadsToIdle ==
    <>[](hplay.listening_last /\ hplay.submitted > 0) => <>[]Settled

\* All replies have been played; the "listening" arrived during the playback
\* of the last one and was the last event; the room is settled.
C30_Witness ==
    /\ hplay.listening_last
    /\ hplay.submitted = MaxReplies
    /\ Len(hplay.completed) = MaxReplies
    /\ hrace.listened
    /\ hrace.last = "listening"
    /\ room.idle_entered_at = room.speaking_ended_at
    /\ Settled

(***************************************************************************)
(* C31: when a playback ends (after its audio or after a failed synthesis) *)
(* with replies in the queue, the finally block leaves the status, the     *)
(* activity and waiting_for_response as they are and keeps a recorded      *)
(* pending "listening" and its time; the next reply is played, and the     *)
(* pending signal is still there for the end of the last playback.         *)
(***************************************************************************)
C31_QueuedFinishKeepsPending ==
    [][\A id \in 1..MaxReplies :
          (/\ SleepDone(id) \/ ErrorReturn(id)
           /\ room.response_queue # <<>>)
          => LET done == AfterPlayback(room, playing[id].tts_started_at, clock)
             IN  /\ done.current_state = room.current_state
                 /\ done.current_activity = room.current_activity
                 /\ done.waiting_for_response = room.waiting_for_response
                 /\ done.pending_listening = room.pending_listening
                 /\ done.pending_listening_at = room.pending_listening_at
                 /\ room'.pending_listening = room.pending_listening
                 /\ room'.pending_listening_at = room.pending_listening_at
                 /\ room'.waiting_for_response = room.waiting_for_response
                 /\ room'.current_state = "speaking"
                 /\ room'.is_speaking
                 /\ room'.response_queue = Tail(room.response_queue)]_vars

\* All replies were submitted before the first one completed; the last of
\* them is playing, and the pending "listening" recorded before it began is
\* still recorded.
C31_Witness ==
    /\ hplay.burst
    /\ Len(hplay.completed) = MaxReplies - 1
    /\ playing # [x \in {} |-> 0]
    /\ room.is_speaking
    /\ room.pending_listening
    /\ ~hrace.listened

(***************************************************************************)
(* C32: ingestion suppression.  A frame that arrives while the room is     *)
(* speaking or waiting for a reply, less than ECHO_COOLDOWN_S after the    *)
(* end of a playback, or less than IDLE_DEBOUNCE_S after the room entered  *)
(* idle, is dropped: it is neither buffered nor classified, and the audio  *)
(* buffer, the segmenter state and the room are as they were.              *)
(***************************************************************************)
C32_SuppressedFrameDropped ==
    [][\A b \in BOOLEAN :
          (/\ ProcessFrame(b)
           /\ \/ room.is_speaking
              \/ room.waiting_for_response
              \/ clock' - room.speaking_ended_at < ECHO_COOLDOWN_MS
              \/ clock' - room.idle_entered_at < IDLE_DEBOUNCE_MS)
          => /\ room' = room
             /\ seg' = seg
             /\ utt' = utt
             /\ hseg' = hseg]_vars

\* Both frames of the stream arrived after the end of a playback, within the
\* echo cooldown, with the room neither speaking nor waiting: none of them
\* was buffered or seen by the segmenter.
C32_Witness ==
    /\ stream.seen = 2
    /\ hplay.completed # <<>>
    /\ ~room.is_speaking
    /\ ~room.waiting_for_response
    /\ clock = room.speaking_ended_at + 2 * VAD_FRAME_MS
    /\ clock - room.idle_entered_at >= IDLE_DEBOUNCE_MS
    /\ room.audio_buffer = 0
    /\ seg = SegNew
    /\ hseg.window = <<>>

(***************************************************************************)
(* C34: the audio buffer is bounded for every input: it never holds more   *)
(* frames than MAX_RECORDING_S of audio plus the frame that triggers the   *)
(* cap, also when the stream delivers non-speech frames only and no        *)
(* utterance ever begins.                                                  *)
(***************************************************************************)
C34_BufferBounded ==
    room.audio_buffer * VAD_FRAME_MS <= cfg.max_recording + VAD_FRAME_MS

(***************************************************************************)
(* C35: the recovery timer.  A failure arms the timer a full               *)
(* ERROR_RECOVERY_S ahead, replacing the one that was live (the room has   *)
(* one timer field, so one live timer); the timer fires only when it is    *)
(* live and due, and the recovery to idle comes a full delay after the     *)
(* most recent failure: the timer does not fire between the moment a       *)
(* failure has set the status to error and the moment that failure has     *)
(* armed its own timer.                                                    *)
(***************************************************************************)
C35_RecoveryAfterLastError ==
    [][/\ \A id \in 1..MaxReplies :
             ErrorReturn(id) => room'.error_timer = clock + ERROR_RECOVERY_MS
       /\ SttErrorReturn => room'.error_timer = clock + ERROR_RECOVERY_MS
       /\ TimerFires =>
             /\ room.error_timer # NoTime
             /\ clock >= room.error_timer
             /\ room'.error_timer = NoTime
             /\ \A id \in DOMAIN playing : playing[id].pc # "error"
             /\ utt.pc # "stt_error"]_vars

(***************************************************************************)
(* C38: the send of the forwarded text fails.  The handler takes the       *)
(* session out of the registry, does not set waiting_for_response and      *)
(* changes nothing else of the room; the failure stays inside the          *)
(* handler: it returns into the audio loop, which clears its buffer and    *)
(* its locals and is back at reading frames, the room still running and    *)
(* still held by the agent.                                                *)
(***************************************************************************)
C38_SendFailureContained ==
    [][/\ SendFails =>
             /\ room' = room
             /\ ~hutt'.set_waiting
             /\ utt'.pc = "unregister"
       /\ SendFailsUnregister =>
             /\ RoomSid \notin DOMAIN sessions'
             /\ room' = room
             /\ ~hutt'.set_waiting /\ hutt'.sent = <<>>
             /\ rooms' = rooms /\ RoomSid \in rooms
             /\ utt'.pc = "return"
       /\ (UtteranceReturn /\ utt.text # <<>> /\ ~hutt.set_waiting) =>
             /\ room'.running
             /\ room'.waiting_for_response = room.waiting_for_response
             /\ room'.current_state = room.current_state
             /\ utt' = UttNone /\ seg' = SegNew /\ room'.audio_buffer = 0]_vars

\* The handler has failed to send a transcript, has unregistered the session
\* and is about to return into the audio loop.
C38_Witness ==
    /\ utt.pc = "return" /\ utt.text # <<>>
    /\ ~hutt.set_waiting /\ hutt.sent = <<>>
    /\ RoomSid \notin DOMAIN sessions
    /\ ~room.waiting_for_response /\ room.running
    /\ stream.seen < Len(UtteranceScript)

(***************************************************************************)
(* C39: whenever the status of the room is idle, waiting_for_response is   *)
(* false and is_speaking is false.                                         *)
(***************************************************************************)
C39_IdleMeansNotSuppressed ==
    room.current_state = "idle" =>
        /\ ~room.waiting_for_response
        /\ ~room.is_speaking

(***************************************************************************)
(* C40: every buffer handed to the transcription holds at least one frame  *)
(* that was classified as speech.  The buffer is made of the last          *)
(* audio_buffer frames the loop has admitted; when a frame ends the        *)
(* utterance, one of them is a speech frame.                               *)
(***************************************************************************)
C40_BufferHasSpeech ==
    [][\A b \in BOOLEAN :
          (ProcessFrame(b) /\ utt'.pc = "transcribe")
          => LET fw == hseg'.fired_window
             IN  \E i \in (Len(fw) - room'.audio_buffer + 1)..Len(fw) : fw[i].speech]_vars

(***************************************************************************)
(* The audio-ingestion tasks of one room, livekit_agent.py:275-363.        *)
(* ingest.tasks holds every task of _process_audio_stream that has been    *)
(* created, with its participant, its position and its locals;             *)
(* ingest.audio_stream_tasks is the dict of the same name; ingest.ready is *)
(* the order in which the event loop will resume the tasks that are ready  *)
(* to run (asyncio runs its callbacks first in, first out).                *)
(* Positions: "created" (not started), "running" (awaiting the next        *)
(* frame), "handling" (awaiting _handle_utterance), "cancelling" (cancel() *)
(* called, CancelledError not yet delivered), "done".                      *)
(***************************************************************************)
\* Number of ingestion tasks created in a behaviour.
MaxTasks == 3
\* Number of frames the streams deliver in a behaviour.
MaxIngestFrames == 4

Task(p) == [identity |-> p, st |-> "created", seg |-> SegNew]

\* `if task and not task.done(): task.cancel()`, livekit_agent.py:278-279 and
\* 290-292.  A task that waits is made ready to receive CancelledError; a
\* task that has not started is already in the ready queue.
CancelIfLive(g, k) ==
    IF k = NoTask THEN g
    ELSE IF g.tasks[k].st \in {"running", "handling"}
         THEN [g EXCEPT !.tasks[k].st = "cancelling", !.ready = Append(@, k)]
    ELSE IF g.tasks[k].st = "created"
         THEN [g EXCEPT !.tasks[k].st = "cancelling"]
    ELSE g

\* A subscription that starts the new task and leaves the earlier one alone.
TrackSubscribedNoCancel(g, p) ==
    LET n == Len(g.tasks) + 1
    IN  [tasks |-> Append(g.tasks, Task(p)),
         audio_stream_tasks |-> [g.audio_stream_tasks EXCEPT ![p] = n],
         ready |-> Append(g.ready, n)]

\* _on_track_subscribed for an audio track, livekit_agent.py:282-297.
on_track_subscribed(g, p) ==
    LET g1 == CancelIfLive(g, g.audio_stream_tasks[p])
        n == Len(g1.tasks) + 1
    IN  [tasks |-> Append(g1.tasks, Task(p)),
         audio_stream_tasks |-> [g1.audio_stream_tasks EXCEPT ![p] = n],
         ready |-> Append(g1.ready, n)]

\* _on_participant_disconnected, livekit_agent.py:275-279.
on_participant_disconnected(g, p) ==
    [CancelIfLive(g, g.audio_stream_tasks[p]) EXCEPT !.audio_stream_tasks[p] = NoTask]

ingestUnchanged ==
    UNCHANGED <<regVars, noiseVars, agentVars, cfg, playing, seg, utt,
                hplay, hrace, hdone, hseg, hutt, removal>>

TrackSubscribed(p) ==
    /\ room.running
    /\ Len(ingest.tasks) < MaxTasks
    /\ ingest' = on_track_subscribed(ingest, p)
    /\ UNCHANGED <<clock, stream, room>>
    /\ ingestUnchanged

ParticipantDisconnected(p) ==
    /\ room.running
    /\ ingest' = on_participant_disconnected(ingest, p)
    /\ UNCHANGED <<clock, stream, room>>
    /\ ingestUnchanged

\* The event loop starts the task at the head of the ready queue:
\* livekit_agent.py:305-310, up to the wait for the first frame.
TaskStarts(k) ==
    /\ ingest.ready # <<>> /\ k = Head(ingest.ready)
    /\ ingest.tasks[k].st = "created"
    /\ ingest' = [ingest EXCEPT !.tasks[k].st = "running", !.ready = Tail(@)]
    /\ room' = [room EXCEPT !.audio_buffer = 0]
    /\ UNCHANGED <<clock, stream>>
    /\ ingestUnchanged

\* The event loop resumes a cancelled task: CancelledError is raised at its
\* await (or at its start), is caught neither by the `except Exception` of
\* livekit_agent.py:357 nor anywhere in _handle_utterance, and ends the task.
TaskCancelled(k) ==
    /\ ingest.ready # <<>> /\ k = Head(ingest.ready)
    /\ ingest.tasks[k].st = "cancelling"
    /\ ingest' = [ingest EXCEPT !.tasks[k].st = "done", !.ready = Tail(@)]
    /\ UNCHANGED <<clock, stream, room>>
    /\ ingestUnchanged

\* A frame of the stream of task k, livekit_agent.py:310-356, up to the first
\* await of _handle_utterance when the frame ends the utterance.
TaskFrame(k, is_speech) ==
    /\ k \in 1..Len(ingest.tasks)
    /\ ingest.tasks[k].st = "running"
    /\ stream.seen < stream.horizon
    /\ LET t == clock + VAD_FRAME_MS
           s1 == Segment(ingest.tasks[k].seg, is_speech, t)
           r1 == [room EXCEPT !.audio_buffer = @ + 1]
       IN  /\ clock' = t
           /\ stream' = [stream EXCEPT !.seen = @ + 1]
           /\ IF ~room.running
              THEN /\ ingest' = [ingest EXCEPT !.tasks[k].st = "done"]
                   /\ room' = room
              ELSE IF Suppressed(room, t)
              THEN UNCHANGED <<ingest, room>>
              ELSE IF UtteranceEnded(s1, t, cfg)
              THEN /\ ingest' = [ingest EXCEPT !.tasks[k].st = "handling",
                                               !.tasks[k].seg = s1]
                   /\ room' = IF RoomSid \in DOMAIN sessions
                              THEN NotifyStatus(r1, "thinking", "Transcribing speech...", t)
                              ELSE r1
              ELSE /\ ingest' = [ingest EXCEPT !.tasks[k].seg = s1]
                   /\ room' = r1
    /\ ingestUnchanged

\* _handle_utterance returns into the loop of task k, livekit_agent.py:357-363,
\* having forwarded the transcript (446-454) or not.
HandlerReturns(k, sent) ==
    /\ k \in 1..Len(ingest.tasks)
    /\ ingest.tasks[k].st = "handling"
    /\ ingest' = [ingest EXCEPT !.tasks[k].st = "running", !.tasks[k].seg = SegNew]
    /\ room' = [(IF sent
                 THEN NotifyStatus([room EXCEPT !.waiting_for_response = TRUE],
                                   "thinking", "Waiting for Claude...", clock)
                 ELSE room) EXCEPT !.audio_buffer = 0]
    /\ UNCHANGED <<clock, stream>>
    /\ ingestUnchanged

\* The stream of task k ends (the track is unpublished): the loop ends and
\* the task with it; its handle stays in _audio_stream_tasks.
StreamEnds(k) ==
    /\ k \in 1..Len(ingest.tasks)
    /\ ingest.tasks[k].st = "running"
    /\ ingest' = [ingest EXCEPT !.tasks[k].st = "done"]
    /\ UNCHANGED <<clock, stream, room>>
    /\ ingestUnchanged

IngestInit ==
    /\ RegisteredInit
    /\ RoomState(RoomStarted)
    /\ cfg = QuickConfig
    /\ stream = Stream(MaxIngestFrames, <<>>, 0)
    /\ NoiseIdle

IngestNext ==
    \/ \E p \in Identities : TrackSubscribed(p)
    \/ \E p \in Identities : ParticipantDisconnected(p)
    \/ \E k \in 1..MaxTasks : TaskStarts(k)
    \/ \E k \in 1..MaxTasks : TaskCancelled(k)
    \/ \E k \in 1..MaxTasks, b \in BOOLEAN : TaskFrame(k, b)
    \/ \E k \in 1..MaxTasks, sent \in BOOLEAN : HandlerReturns(k, sent)
    \/ \E k \in 1..MaxTasks : StreamEnds(k)

SpecIngest == IngestInit /\ [][IngestNext]_vars

\* The tasks of participant p that are in the loop of _process_audio_stream.
Ingesting(g, p) ==
    {k \in 1..Len(g.tasks) :
        g.tasks[k].identity = p /\ g.tasks[k].st \in {"running", "handling"}}

\* The tasks of participant p, other than k, that have not ended.
OthersAlive(g, p, k) ==
    {j \in 1..Len(g.tasks) :
        j # k /\ g.tasks[j].identity = p /\ g.tasks[j].st # "done"}

(***************************************************************************)
(* C33: for each participant identity at most one ingestion task is in     *)
(* its loop at any time.  A subscription cancels the task registered for   *)
(* the identity and registers the new one; the new task starts only when   *)
(* every earlier task of the identity has ended; only the registered task  *)
(* processes frames; a disconnect cancels the registered task and removes  *)
(* its handle.                                                             *)
(***************************************************************************)
C33_OneIngestionPerIdentity ==
    /\ [](\A p \in Identities : Cardinality(Ingesting(ingest, p)) <= 1)
    /\ [][/\ \A p \in Identities :
                TrackSubscribed(p) =>
                   LET old == ingest.audio_stream_tasks[p]
                   IN  /\ old # NoTask => ingest'.tasks[old].st \in {"cancelling", "done"}
                       /\ ingest'.audio_stream_tasks[p] = Len(ingest'.tasks)
                       /\ ingest'.tasks[Len(ingest'.tasks)] = Task(p)
          /\ \A p \in Identities :
                ParticipantDisconnected(p) =>
                   LET old == ingest.audio_stream_tasks[p]
                   IN  /\ old # NoTask => ingest'.tasks[old].st \in {"cancelling", "done"}
                       /\ ingest'.audio_stream_tasks[p] = NoTask
          /\ \A k \in 1..MaxTasks :
                TaskStarts(k) => OthersAlive(ingest, ingest.tasks[k].identity, k) = {}
          /\ \A k \in 1..MaxTasks, b \in BOOLEAN :
                TaskFrame(k, b) =>
                   /\ ingest.audio_stream_tasks[ingest.tasks[k].identity] = k
                   /\ Ingesting(ingest, ingest.tasks[k].identity) = {k}]_vars

\* The track of p1 has been subscribed twice: the first task has ended by
\* cancellation after buffering a frame, the second is in its loop and has
\* buffered a frame of its own, while a task of p2 is in its loop too.
C33_Witness ==
    /\ Len(ingest.tasks) = 3
    /\ ingest.tasks[1].identity = "p1" /\ ingest.tasks[1].st = "done"
    /\ ingest.tasks[1].seg.speech_detected
    /\ ingest.tasks[2].identity = "p2" /\ ingest.tasks[2].st = "running"
    /\ ingest.tasks[3].identity = "p1" /\ ingest.tasks[3].st = "running"
    /\ ingest.tasks[3].seg.speech_detected
    /\ ingest.audio_stream_tasks["p1"] = 3
    /\ room.audio_buffer = 1

(***************************************************************************)
(* The removal of the room, livekit_agent.py:249-270 and 640-645, while    *)
(* replies are queued and played.                                          *)
(* removal.phase: "none", "stopping" (stop() awaits room.disconnect()),    *)
(* "removed" (remove_session has returned).  removal.published counts, per *)
(* reply, the chunks _publish_audio_chunk has published.  A playback whose *)
(* worker has been cancelled keeps its position, marked as cancelled,      *)
(* until the event loop resumes the worker with CancelledError.            *)
(***************************************************************************)
\* Number of chunks the synthesis stream yields for a reply.
ReplyChunks == 2

CancelledAt(pc) ==
    CASE pc = "synth" -> "cancelled_synth"
      [] pc = "sleep" -> "cancelled_sleep"
      [] pc = "error" -> "cancelled_error"
      [] OTHER -> pc

CancelPending(p) ==
    {id \in DOMAIN p : p[id].pc \in {"cancelled_synth", "cancelled_sleep", "cancelled_error"}}

\* SessionRoom.stop up to its await, livekit_agent.py:251-267: the worker and
\* the error timer are cancelled.
stop(r) == [r EXCEPT !.running = FALSE, !.error_timer = NoTime]

\* remove_session pops the room and calls stop(), which runs up to
\* `await self.room.disconnect()`.  The disconnect suspends the caller, or
\* returns at once (a room whose connection is already down).
StopRoom(suspends) ==
    /\ RoomSid \in rooms
    /\ room.running
    /\ removal.phase = "none"
    /\ rooms' = remove_session(rooms, RoomSid)
    /\ room' = stop(room)
    /\ playing' = [id \in DOMAIN playing |->
                      [playing[id] EXCEPT !.pc = CancelledAt(@)]]
    /\ removal' = [removal EXCEPT !.phase = IF suspends THEN "stopping" ELSE "removed"]
    /\ UNCHANGED <<now, sessions, lock, ws_state, conn_pc, conn_sid, conn_reconnect,
                   replaced, reg_last, reg_at, srv_closed, noiseVars, agentVars, ingest>>
    /\ UNCHANGED <<clock, cfg, stream, seg, utt, hplay, hrace, hdone, hseg, hutt>>

\* room.disconnect() returns, livekit_agent.py:267-270 and 645.  The tasks
\* cancelled by stop() were made ready before the disconnect was awaited, so
\* they have been resumed by then.
StopDone ==
    /\ removal.phase = "stopping"
    /\ CancelPending(playing) = {}
    /\ removal' = [removal EXCEPT !.phase = "removed"]
    /\ UNCHANGED <<regVars, noiseVars, agentVars, ingest, roomVars>>

\* The cancelled worker is resumed: CancelledError is raised at the await of
\* the playback.  Inside the try of _play_tts_response the finally block
\* runs, livekit_agent.py:510-532; at the await of line 480, before the try,
\* it does not.  The worker then ends (469-470, or 465 when the finally
\* returned).
CancelDelivered(id, in_try) ==
    /\ id \in CancelPending(playing)
    /\ in_try \/ (playing[id].pc = "cancelled_synth" /\ removal.published[id] = 0)
    /\ room' = IF in_try
               THEN AfterPlayback(room, playing[id].tts_started_at, clock)
               ELSE room
    /\ playing' = Pop(playing, id)
    /\ UNCHANGED <<clock, cfg, stream, seg, utt, hplay, hrace, hdone, hseg, hutt>>
    /\ UNCHANGED <<regVars, noiseVars, agentVars, ingest, removal>>

\* _publish_audio_chunk has published one more chunk of the reply,
\* livekit_agent.py:487-489.
PublishChunk(id) ==
    /\ id \in DOMAIN playing
    /\ playing[id].pc = "synth"
    /\ removal.published[id] < ReplyChunks
    /\ removal' = [removal EXCEPT !.published[id] = @ + 1]
    /\ UNCHANGED <<regVars, noiseVars, agentVars, ingest, roomVars>>

\* The stream ends after audio (or breaks after audio, livekit_agent.py:490-492).
SynthDone(id) ==
    /\ removal.published[id] >= 1
    /\ SynthOk(id)

\* The stream raises or ends before any audio, livekit_agent.py:490-501.
SynthNothing(id) ==
    /\ removal.published[id] = 0
    /\ SynthFails(id)

StopInit == RoomInit

StopNext ==
    \/ Reply
    \/ Listening
    \/ WorkerGet
    \/ \E id \in 1..MaxReplies : PublishChunk(id)
    \/ \E id \in 1..MaxReplies : SynthDone(id)
    \/ \E id \in 1..MaxReplies : SynthNothing(id)
    \/ \E id \in 1..MaxReplies : ErrorReturn(id)
    \/ \E id \in 1..MaxReplies : SleepDone(id)
    \/ TimerFires
    \/ Elapse
    \/ \E b \in BOOLEAN : StopRoom(b)
    \/ StopDone
    \/ \E id \in 1..MaxReplies, b \in BOOLEAN : CancelDelivered(id, b)

SpecStop == StopInit /\ [][StopNext]_vars

(***************************************************************************)
(* C36: once remove_session has returned, the removed room starts no       *)
(* playback, fires no timer, and neither changes its status nor notifies   *)
(* the viewers of one.                                                     *)
(***************************************************************************)
C36_RemovedRoomIsSilent ==
    [][removal.phase = "removed" =>
          /\ room'.current_state = room.current_state
          /\ room'.current_activity = room.current_activity
          /\ room'.idle_entered_at = room.idle_entered_at
          /\ hplay'.started = hplay.started
          /\ room'.is_speaking => room.is_speaking
          /\ room.error_timer = NoTime /\ room'.error_timer = NoTime]_vars

(***************************************************************************)
(* C37: a reply whose publish loop is in flight when the room is removed   *)
(* is published in full before its worker stops.                           *)
(***************************************************************************)
C37_PublishLoopDrains ==
    [][\A id \in 1..MaxReplies, b \in BOOLEAN :
          (/\ CancelDelivered(id, b)
           /\ playing[id].pc = "cancelled_synth"
           /\ removal.published[id] >= 1)
          => removal.published[id] = ReplyChunks]_vars

====
